---- MODULE Spec2Model ----
(***************************************************************************)
(* A model of scripts/test_monitoring_senarios.py: the interactive menu    *)
(* loop (main), the session state file (load_state / save_state), the      *)
(* deployment and destruction drivers, the stack inventory and the load    *)
(* generators.  The external CLIs, the terminal and the file system are    *)
(* the environment: every exit code, output and answer is an input drawn   *)
(* from a small set.  The commands, prompts and file writes of one call    *)
(* are recorded in a log, so that "no command was issued" and "before any  *)
(* template generation" are predicates on states.                          *)
(***************************************************************************)
EXTENDS Integers, Sequences, FiniteSets, TLC

VARIABLES
  pc,                \* where the program is: the function about to run, "start", "loop", "menu", "done", "exited", "crashed"
  current_scenario,  \* main's local current_scenario (a Python value)
  sink_arn,          \* main's local sink_arn (a Python value)
  state_file,        \* <project_root>/.monitoring-state.json
  bin,               \* the generated entry-point files in bin/: 0 is deploy-monitoring.ts, n is deploy-scenario<n>.ts
  call,              \* the function called last, with its arguments and the environment's answers
  result             \* what that call returned and did: its log of commands, prompts and file writes

vars == <<pc, current_scenario, sink_arn, state_file, bin, call, result>>

-----------------------------------------------------------------------------
(* Python values.  Every value is a record of the same shape, so that any   *)
(* two can be compared.                                                     *)

None == [t |-> "none", n |-> 0, s |-> ""]

PyInt(k) == [t |-> "int", n |-> k, s |-> ""]

PyStr(x) == [t |-> "str", n |-> 0, s |-> x]

\* time.time(): a float; its value is never read back by the program.
PyTime == [t |-> "float", n |-> 0, s |-> "1.5"]

\* What dict.get finds for a key the dict does not hold.
Absent == [t |-> "absent", n |-> 0, s |-> ""]

\* Python's truth value, as used by `if current_scenario:` and `not sink_arn`.
Truthy(v) ==
  CASE v.t = "none" -> FALSE
    [] v.t = "int" -> v.n # 0
    [] v.t = "str" -> v.s # ""
    [] v.t = "float" -> TRUE
    [] OTHER -> FALSE

\* The scenario numbers of main's `scenarios` table.
ScenarioNums == 1..6

\* Scenarios that need the cross-account sink.
SinkScenarios == {2, 6}

-----------------------------------------------------------------------------
(* JSON text, as the sequence of its lexemes.  A lexeme is a quoted string  *)
(* or a bare word: punctuation, null, a number.                             *)

Bare(x) == [q |-> FALSE, text |-> x]

Quoted(x) == [q |-> TRUE, text |-> x]

StateKeys == {"current_scenario", "sink_arn", "last_updated"}

\* The integers whose JSON text the parser of this model recognises.
JsonInts == 0..9

\* json.dump of one scalar value.
json_encode(v) ==
  CASE v.t = "none" -> Bare("null")
    [] v.t = "int" -> Bare(ToString(v.n))
    [] v.t = "str" -> Quoted(v.s)
    [] OTHER -> Bare(v.s)

\* json.dump of the dict save_state builds, in its key order.
json_dump(cs, sa) ==
  << Bare("{"),
     Quoted("current_scenario"), Bare(":"), json_encode(cs), Bare(","),
     Quoted("sink_arn"), Bare(":"), json_encode(sa), Bare(","),
     Quoted("last_updated"), Bare(":"), json_encode(PyTime), Bare("}") >>

IsScalarLexeme(lx) ==
  \/ lx.q
  \/ lx.text = "null"
  \/ lx.text = "1.5"
  \/ \E k \in JsonInts : ToString(k) = lx.text

\* json.load of one scalar lexeme.
json_decode(lx) ==
  IF lx.q THEN PyStr(lx.text)
  ELSE IF lx.text = "null" THEN None
  ELSE IF lx.text = "1.5" THEN PyTime
  ELSE PyInt(CHOOSE k \in JsonInts : ToString(k) = lx.text)

\* The text is one JSON object: { "key" : value , ... }.
IsJsonObject(toks) ==
  /\ Len(toks) >= 2
  /\ toks[1] = Bare("{")
  /\ \/ Len(toks) = 2 /\ toks[2] = Bare("}")
     \/ /\ Len(toks) > 2
        /\ (Len(toks) - 1) % 4 = 0
        /\ \A j \in 0..((Len(toks) - 1) \div 4 - 1) :
             /\ toks[2 + 4*j].q
             /\ toks[3 + 4*j] = Bare(":")
             /\ IsScalarLexeme(toks[4 + 4*j])
             /\ toks[5 + 4*j] = (IF 5 + 4*j = Len(toks) THEN Bare("}") ELSE Bare(","))

\* The text is valid JSON that is not an object: a lone scalar, or [].
IsJsonOther(toks) ==
  \/ Len(toks) = 1 /\ IsScalarLexeme(toks[1])
  \/ toks = << Bare("["), Bare("]") >>

\* json.load: a dict (its value for each key of interest, Absent when the
\* key is missing; a repeated key keeps its last value), another JSON value,
\* or an exception.
json_load(toks) ==
  IF IsJsonObject(toks) THEN
    LET m == (Len(toks) - 1) \div 4
        At(k) == {j \in 0..(m - 1) : toks[2 + 4*j] = Quoted(k)}
        Last(S) == CHOOSE j \in S : \A i \in S : i <= j
    IN [kind |-> "dict",
        d |-> [k \in StateKeys |->
                 IF At(k) = {} THEN Absent ELSE json_decode(toks[4 + 4*Last(At(k))])]]
  ELSE IF IsJsonOther(toks) THEN [kind |-> "other", d |-> [k \in StateKeys |-> Absent]]
  ELSE [kind |-> "raise", d |-> [k \in StateKeys |-> Absent]]

\* dict.get(key): None for a missing key.
dict_get(d, k) == IF d[k] = Absent THEN None ELSE d[k]

-----------------------------------------------------------------------------
(* The state file.                                                          *)

NoFile == [kind |-> "missing", text |-> << >>]

\* A path that exists but cannot be opened (no permission, a directory).
LockedFile == [kind |-> "locked", text |-> << >>]

TextFile(toks) == [kind |-> "text", text |-> toks]

\* The dict load_state returns when there is nothing to load.
DefaultState ==
  [kind |-> "dict",
   d |-> [k \in StateKeys |-> IF k = "last_updated" THEN Absent ELSE None]]

\* load_state: the parsed file when it exists and parses, whatever JSON
\* value that is; the default record when the file is missing, cannot be
\* opened or is not JSON.
load_state(file) ==
  IF file.kind # "missing" THEN
    IF file.kind = "text" /\ json_load(file.text).kind # "raise"
    THEN json_load(file.text)
    ELSE DefaultState
  ELSE DefaultState

\* How a write of the state file can end: it succeeds, open() fails and the
\* file is left as it was, or the write breaks off after open() truncated
\* the file and wrote its first lexeme.
WriteOutcomes == {"ok", "open_fails", "cut_short"}

\* The outcomes possible on a given file: a locked path cannot be opened.
WriteOutcomesOn(file) == IF file.kind = "locked" THEN {"open_fails"} ELSE WriteOutcomes

\* save_state with the two values written under each other's key.
save_state_swapped(file, cs, sa, wr) ==
  IF wr = "open_fails" THEN file
  ELSE IF wr = "cut_short" THEN TextFile(<< Bare("{") >>)
  ELSE TextFile(json_dump(sa, cs))

\* A save that leaves the file as it was.
save_state_not_rewriting(file, cs, sa, wr) == file

\* save_state: the file after the call.  Every failure is caught and only
\* logged as a warning, so the call returns normally in each case.
save_state(file, cs, sa, wr) ==
  IF wr = "open_fails" THEN file
  ELSE IF wr = "cut_short" THEN TextFile(<< Bare("{") >>)
  ELSE TextFile(json_dump(cs, sa))

-----------------------------------------------------------------------------
(* The values and files the session can hold.                               *)

\* Values of current_scenario that main assigns and save_state writes.
StateScenarios == {None} \cup {PyInt(n) : n \in ScenarioNums}

\* Strings a sink ARN variable can hold: an ARN, the empty string, and two
\* strings that read like other JSON values.
SinkStrings == {"arn:x", "", "null", "3"}

StateSinks == {None} \cup {PyStr(x) : x \in SinkStrings}

\* State files that are not the output of a complete save_state: missing,
\* locked, cut short, and two JSON texts that are no state record.
BrokenFiles ==
  { NoFile, LockedFile,
    TextFile(<< Bare("{") >>),
    TextFile(<< Bare("["), Bare("]") >>),
    TextFile(<< Bare("{"), Bare("}") >>) }

NoCall == [fn |-> "none"]

NoResult == [ret |-> FALSE, log |-> << >>, bin |-> {}, raised |-> FALSE]

-----------------------------------------------------------------------------
(* The environment of a call: the external commands (run_command), the      *)
(* operator at the terminal (input) and the files in bin/.  A call's log    *)
(* lists what it did, in order; n is 0 for the monitoring stack and the     *)
(* scenario number otherwise.                                               *)

Ev(e, n) == [e |-> e, n |-> n]

\* The log entries that are external commands (calls of run_command).
Commands ==
  {"sts", "describe_toolkit", "bootstrap", "synth", "deploy", "describe_outputs",
   "describe_stack", "describe_params", "destroy", "list_stacks",
   "list_dashboards", "list_links", "invoke", "put_item", "curl", "s3_upload",
   "s3_download"}

\* The entries of a log, as a set of names.
Asked(log) == {log[i].e : i \in DOMAIN log}

\* How often a log holds the entry e.
Count(log, e) == Cardinality({i \in DOMAIN log : log[i].e = e})

\* Exit codes: 0, and 1 for every non-zero code.
RCs == {0, 1}

\* What the operator may type at a yes/no prompt.
Answers == {"y", "Y", "n", ""}

\* str.lower() on the answers and menu choices of this model.
Lower(x) ==
  CASE x = "Y" -> "y"
    [] x = "N" -> "n"
    [] x = "A" -> "a"
    [] x = "D" -> "d"
    [] x = "G" -> "g"
    [] x = "L" -> "l"
    [] x = "M" -> "m"
    [] x = "Q" -> "q"
    [] x = "T" -> "t"
    [] x = "YES" -> "yes"
    [] x = "ALL" -> "all"
    [] OTHER -> x

\* str.upper() on the menu choices of this model.
Upper(x) ==
  CASE x = "a" -> "A"
    [] x = "d" -> "D"
    [] x = "g" -> "G"
    [] x = "l" -> "L"
    [] x = "m" -> "M"
    [] x = "q" -> "Q"
    [] x = "t" -> "T"
    [] OTHER -> x

\* The account ids of config/accounts.config.
MonitoringAccountId == "111111111111"

ApplicationAccountId == "222222222222"

\* The stdout of `aws sts get-caller-identity`: whether it is JSON, and the
\* Account and Arn fields it holds.
Identity(acct) == [json |-> TRUE, hasAccount |-> TRUE, Account |-> acct, hasArn |-> TRUE]

NoIdentity == [json |-> FALSE, hasAccount |-> FALSE, Account |-> "", hasArn |-> FALSE]

Identities ==
  { Identity(MonitoringAccountId), Identity(ApplicationAccountId), NoIdentity,
    [json |-> TRUE, hasAccount |-> FALSE, Account |-> "", hasArn |-> TRUE],
    [json |-> TRUE, hasAccount |-> TRUE, Account |-> MonitoringAccountId, hasArn |-> FALSE],
    [json |-> TRUE, hasAccount |-> TRUE, Account |-> ApplicationAccountId, hasArn |-> FALSE] }

StsOutcomes == {[rc |-> 1, id |-> NoIdentity]} \cup {[rc |-> 0, id |-> i] : i \in Identities}

\* The stdout of the SinkArn query (--output text): the ARN and a newline, or
\* nothing when the stack has no such output.
QueryOutcomes == {[rc |-> 1, out |-> ""], [rc |-> 0, out |-> "arn:x\n"], [rc |-> 0, out |-> ""]}

\* str.strip() on those.
Strip(x) == IF x = "arn:x\n" THEN "arn:x" ELSE x

\* The answers of the environment to one deploy call, one per log entry that
\* asks for one.
DeployEnvSpace ==
  [sts : StsOutcomes, describe_toolkit : RCs, ask_bootstrap : Answers,
   bootstrap : RCs, write_bin : BOOLEAN, synth : RCs, ask_deploy : Answers,
   deploy : RCs, describe_outputs : QueryOutcomes]

DefaultDeployEnv ==
  [sts |-> [rc |-> 1, id |-> NoIdentity], describe_toolkit |-> 0, ask_bootstrap |-> "y",
   bootstrap |-> 0, write_bin |-> TRUE, synth |-> 0, ask_deploy |-> "y",
   deploy |-> 0, describe_outputs |-> [rc |-> 1, out |-> ""]]

\* An answer that was never asked for is the default one: two environments
\* that differ only there are the same environment.
Canonical(env, log, default) ==
  \A f \in DOMAIN env : f \notin Asked(log) => env[f] = default[f]

\* A call that returned ret.
Ret(ret, log, files) == [ret |-> ret, log |-> log, bin |-> files, raised |-> FALSE]

\* A call that ended in an exception no handler of the call catches.
Raise(log, files) == [ret |-> FALSE, log |-> log, bin |-> files, raised |-> TRUE]

-----------------------------------------------------------------------------
(* DeploymentDriver.                                                        *)

\* A bootstrap check that lets a declined bootstrap pass.
check_bootstrap_passing_refusal(n, env, files) ==
  LET l1 == << Ev("describe_toolkit", n) >>
      l2 == l1 \o << Ev("ask_bootstrap", n) >>
      l3 == l2 \o << Ev("bootstrap", n) >>
  IN IF env.describe_toolkit # 0 THEN
       IF Lower(env.ask_bootstrap) = "y" THEN
         IF env.bootstrap # 0 THEN Ret(FALSE, l3, files)
         ELSE Ret(TRUE, l3, files)
       ELSE Ret(TRUE, l2, files)
     ELSE Ret(TRUE, l1, files)

\* check_bootstrap: the CDKToolkit stack is described; when that fails the
\* operator is asked, and `y` runs cdk bootstrap.
check_bootstrap(n, env, files) ==
  LET l1 == << Ev("describe_toolkit", n) >>
      l2 == l1 \o << Ev("ask_bootstrap", n) >>
      l3 == l2 \o << Ev("bootstrap", n) >>
  IN IF env.describe_toolkit # 0 THEN
       IF Lower(env.ask_bootstrap) = "y" THEN
         IF env.bootstrap # 0 THEN Ret(FALSE, l3, files)
         ELSE Ret(TRUE, l3, files)
       ELSE Ret(FALSE, l2, files)
     ELSE Ret(TRUE, l1, files)

\* The identity comparison left out: every account passes.
account_differs_never(identity, expected) == FALSE

\* identity['Account'] != config.<...>_account_id
account_differs(identity, expected) == identity.Account # expected

\* deploy_monitoring_account: the sink ARN (a string), or None.
deploy_monitoring_account(env, files) ==
  LET boot == check_bootstrap(0, env, files)
      l1 == << Ev("sts", 0) >>
      l2 == l1 \o boot.log
      l3 == l2 \o << Ev("write_bin", 0) >>
      l4 == l3 \o << Ev("synth", 0) >>
      l5 == l4 \o << Ev("ask_deploy", 0) >>
      l6 == l5 \o << Ev("deploy", 0) >>
      l7 == l6 \o << Ev("describe_outputs", 0) >>
      written == files \cup {0}
  IN IF env.sts.rc # 0 THEN Ret(None, l1, files)
     ELSE IF ~env.sts.id.json \/ ~env.sts.id.hasAccount THEN Raise(l1, files)
     ELSE IF account_differs(env.sts.id, MonitoringAccountId) THEN Ret(None, l1, files)
     ELSE IF ~env.sts.id.hasArn THEN Raise(l1, files)
     ELSE IF ~boot.ret THEN Ret(None, l2, files)
     ELSE IF ~env.write_bin THEN Raise(l3, files)
     ELSE IF env.synth # 0 THEN Ret(None, l4, written)
     ELSE IF Lower(env.ask_deploy) # "y" THEN Ret(None, l5, written)
     ELSE IF env.deploy # 0 THEN Ret(None, l6, written)
     ELSE IF env.describe_outputs.rc = 0
          THEN Ret(PyStr(Strip(env.describe_outputs.out)), l7, written)
          ELSE Ret(None, l7, written)

\* deploy_scenario: True when the stack was deployed.
deploy_scenario(n, sink, env, files) ==
  LET boot == check_bootstrap(n, env, files)
      l1 == << Ev("sts", n) >>
      l2 == l1 \o boot.log
      l3 == l2 \o << Ev("write_bin", n) >>
      l4 == l3 \o << Ev("synth", n) >>
      l5 == l4 \o << Ev("ask_deploy", n) >>
      l6 == l5 \o << Ev("deploy", n) >>
      l7 == l6 \o << Ev("describe_outputs", n) >>
      written == files \cup {n}
  IN IF Truthy(sink) /\ sink.t # "str" THEN Raise(<< >>, files)
     ELSE IF env.sts.rc # 0 THEN Ret(FALSE, l1, files)
     ELSE IF ~env.sts.id.json \/ ~env.sts.id.hasAccount THEN Raise(l1, files)
     ELSE IF account_differs(env.sts.id, ApplicationAccountId) THEN Ret(FALSE, l1, files)
     ELSE IF ~env.sts.id.hasArn THEN Raise(l1, files)
     ELSE IF ~boot.ret THEN Ret(FALSE, l2, files)
     ELSE IF ~env.write_bin THEN Raise(l3, files)
     ELSE IF env.synth # 0 THEN Ret(FALSE, l4, written)
     ELSE IF Lower(env.ask_deploy) # "y" THEN Ret(FALSE, l5, written)
     ELSE IF env.deploy # 0 THEN Ret(FALSE, l6, written)
     ELSE Ret(TRUE, l7, written)

\* The environments of a deploy call, each once.
MonDeployEnvs ==
  {env \in DeployEnvSpace :
     Canonical(env, deploy_monitoring_account(env, {}).log, DefaultDeployEnv)}

ScenDeployEnvs ==
  {env \in DeployEnvSpace :
     Canonical(env, deploy_scenario(1, None, env, {}).log, DefaultDeployEnv)}

\* The stderr of a failed describe-stacks.
StdErrs == {"Stack with id X does not exist", "AccessDenied"}

\* The outcomes of the stack existence check.
ExistOutcomes == {[rc |-> 0, err |-> ""]} \cup {[rc |-> 1, err |-> x] : x \in StdErrs}

\* The absence test left out: no stderr counts as "already deleted".
stack_is_absent_never(stderr) == FALSE

\* 'does not exist' in stderr
stack_is_absent(stderr) == stderr = "Stack with id X does not exist"

\* The answers of the environment to one destroy call.
DestroyEnvSpace ==
  [describe_stack : ExistOutcomes, ask_destroy : Answers, describe_params : RCs,
   write_bin : BOOLEAN, destroy : RCs]

DefaultDestroyEnv ==
  [describe_stack |-> [rc |-> 0, err |-> ""], ask_destroy |-> "y", describe_params |-> 0,
   write_bin |-> TRUE, destroy |-> 0]

\* The log of deleting the entry point n when it exists.
remove_bin(n, files) == IF n \in files THEN << Ev("remove_bin", n) >> ELSE << >>

\* A destroy of a scenario that deletes the entry point whether or not the
\* destroy command succeeded.
destroy_scenario_always_cleaning(n, env, files) ==
  LET l1 == << Ev("describe_stack", n) >>
      l2 == l1 \o << Ev("ask_destroy", n) >>
      l3 == l2 \o << Ev("destroy", n) >>
  IN IF env.describe_stack.rc # 0 THEN
       IF stack_is_absent(env.describe_stack.err)
       THEN Ret(TRUE, l1 \o remove_bin(n, files), files \ {n})
       ELSE Ret(FALSE, l1, files)
     ELSE IF Lower(env.ask_destroy) # "y" THEN Ret(FALSE, l2, files)
     ELSE IF n \notin files THEN Ret(FALSE, l2, files)
     ELSE Ret(env.destroy = 0, l3 \o remove_bin(n, files), files \ {n})

\* destroy_scenario: True when the stack is gone.
destroy_scenario(n, env, files) ==
  LET l1 == << Ev("describe_stack", n) >>
      l2 == l1 \o << Ev("ask_destroy", n) >>
      l3 == l2 \o << Ev("destroy", n) >>
  IN IF env.describe_stack.rc # 0 THEN
       IF stack_is_absent(env.describe_stack.err)
       THEN Ret(TRUE, l1 \o remove_bin(n, files), files \ {n})
       ELSE Ret(FALSE, l1, files)
     ELSE IF Lower(env.ask_destroy) # "y" THEN Ret(FALSE, l2, files)
     ELSE IF n \notin files THEN Ret(FALSE, l2, files)
     ELSE IF env.destroy # 0 THEN Ret(FALSE, l3, files)
     ELSE Ret(TRUE, l3 \o remove_bin(n, files), files \ {n})

\* A destroy of the monitoring account that issues the destroy command a
\* second time when the first one failed.
destroy_monitoring_account_retrying(env, files) ==
  LET l1 == << Ev("describe_stack", 0) >>
      l2 == l1 \o << Ev("ask_destroy", 0) >>
      l3 == IF 0 \in files THEN l2
            ELSE l2 \o << Ev("describe_params", 0), Ev("write_bin", 0) >>
      l4 == l3 \o << Ev("destroy", 0) >>
      written == files \cup {0}
  IN IF env.describe_stack.rc # 0 THEN
       IF stack_is_absent(env.describe_stack.err)
       THEN Ret(TRUE, l1 \o remove_bin(0, files), files \ {0})
       ELSE Ret(FALSE, l1, files)
     ELSE IF Lower(env.ask_destroy) # "y" THEN Ret(FALSE, l2, files)
     ELSE IF 0 \notin files /\ ~env.write_bin THEN Raise(l3, files)
     ELSE IF env.destroy # 0 THEN Ret(FALSE, l4 \o << Ev("destroy", 0) >>, written)
     ELSE Ret(TRUE, l4 \o remove_bin(0, written), written \ {0})

\* destroy_monitoring_account: True when the stack is gone.  A missing entry
\* point is written again before the destroy command.
destroy_monitoring_account(env, files) ==
  LET l1 == << Ev("describe_stack", 0) >>
      l2 == l1 \o << Ev("ask_destroy", 0) >>
      l3 == IF 0 \in files THEN l2
            ELSE l2 \o << Ev("describe_params", 0), Ev("write_bin", 0) >>
      l4 == l3 \o << Ev("destroy", 0) >>
      written == files \cup {0}
  IN IF env.describe_stack.rc # 0 THEN
       IF stack_is_absent(env.describe_stack.err)
       THEN Ret(TRUE, l1 \o remove_bin(0, files), files \ {0})
       ELSE Ret(FALSE, l1, files)
     ELSE IF Lower(env.ask_destroy) # "y" THEN Ret(FALSE, l2, files)
     ELSE IF 0 \notin files /\ ~env.write_bin THEN Raise(l3, files)
     ELSE IF env.destroy # 0 THEN Ret(FALSE, l4, written)
     ELSE Ret(TRUE, l4 \o remove_bin(0, written), written \ {0})

\* The environments of a destroy call, each once.
ScenDestroyEnvs(n, files) ==
  {env \in DestroyEnvSpace :
     Canonical(env, destroy_scenario(n, env, files).log, DefaultDestroyEnv)}

MonDestroyEnvs(files) ==
  {env \in DestroyEnvSpace :
     Canonical(env, destroy_monitoring_account(env, files).log, DefaultDestroyEnv)}

-----------------------------------------------------------------------------
(* StackInventory.  Text typed at the selection prompt is a sequence of     *)
(* characters.                                                              *)

\* The scenario number a stack name may carry at most in this model.
MaxStackNum == 7

ScenarioStack(n) == "Scenario" \o ToString(n) \o "Stack"

MonitoringStack == "MonitoringAccountStack"

\* 'MonitoringAccountStack' in stack['name']
is_monitoring_stack(name) == name = MonitoringStack

\* re.search(r'Scenario(\d+)Stack', name): the number, or 0 for no match.
scenario_of(name) ==
  IF \E n \in 1..MaxStackNum : name = ScenarioStack(n)
  THEN CHOOSE n \in 1..MaxStackNum : name = ScenarioStack(n)
  ELSE 0

\* The outcome of one list-stacks query: the names it reports.
Listing(rc, names) == [rc |-> rc, names |-> names]

\* list_deployed_stacks: the stacks of the monitoring account, then those of
\* the application account; a failed query adds nothing.
list_deployed_stacks(env, files) ==
  LET mon == IF env.list_mon.rc = 0
             THEN [i \in DOMAIN env.list_mon.names |->
                     [name |-> env.list_mon.names[i], account |-> "monitoring"]]
             ELSE << >>
      app == IF env.list_app.rc = 0
             THEN [i \in DOMAIN env.list_app.names |->
                     [name |-> env.list_app.names[i], account |-> "application"]]
             ELSE << >>
  IN Ret(mon \o app, << Ev("list_stacks", 0), Ev("list_stacks", 1) >>, files)

Digits == {"0", "1", "2", "3", "4", "5", "6", "7", "8", "9"}

DigitValue(c) == CHOOSE k \in 0..9 : ToString(k) = c

LowerChar(c) ==
  CASE c = "A" -> "a"
    [] c = "L" -> "l"
    [] c = "Q" -> "q"
    [] OTHER -> c

\* str.lower()
StrLower(x) == [i \in DOMAIN x |-> LowerChar(x[i])]

\* str.strip(): the text without its leading and trailing blanks.
StrStrip(x) ==
  LET solid == {i \in DOMAIN x : x[i] # " "}
      lo == CHOOSE i \in solid : \A j \in solid : i <= j
      hi == CHOOSE i \in solid : \A j \in solid : j <= i
  IN IF solid = {} THEN << >> ELSE SubSeq(x, lo, hi)

\* str.split(','): the pieces between the commas, empty pieces included.
RECURSIVE StrSplit(_)
StrSplit(x) ==
  LET commas == {i \in DOMAIN x : x[i] = ","}
      first == CHOOSE i \in commas : \A j \in commas : i <= j
  IN IF commas = {} THEN << x >>
     ELSE << SubSeq(x, 1, first - 1) >> \o StrSplit(SubSeq(x, first + 1, Len(x)))

\* The value of a run of digits.
RECURSIVE DigitsValue(_)
DigitsValue(x) ==
  IF x = << >> THEN 0
  ELSE 10 * DigitsValue(SubSeq(x, 1, Len(x) - 1)) + DigitValue(x[Len(x)])

\* int(x.strip()): an optional sign and at least one digit; anything else
\* is a ValueError.
IsInt(x) ==
  LET y == StrStrip(x)
      body == IF y # << >> /\ y[1] \in {"-", "+"} THEN Tail(y) ELSE y
  IN body # << >> /\ \A i \in DOMAIN body : body[i] \in Digits

ParseInt(x) ==
  LET y == StrStrip(x)
  IN IF y[1] = "-" THEN 0 - DigitsValue(Tail(y))
     ELSE IF y[1] = "+" THEN DigitsValue(Tail(y))
     ELSE DigitsValue(y)

\* A selection that reads the numbers typed as positions counted from zero.
select_stacks_zero_based(count, choice) ==
  LET pieces == StrSplit(choice)
      indices == [i \in DOMAIN pieces |-> ParseInt(pieces[i]) + 1]
  IN IF choice = << "a", "l", "l" >> THEN [ok |-> TRUE, idx |-> [i \in 1..count |-> i]]
     ELSE IF \E i \in DOMAIN pieces : ~IsInt(pieces[i]) THEN [ok |-> FALSE, idx |-> << >>]
     ELSE IF \E i \in DOMAIN indices : ~(1 <= indices[i] /\ indices[i] <= count)
          THEN [ok |-> FALSE, idx |-> << >>]
     ELSE [ok |-> TRUE, idx |-> indices]

\* A selection that keeps the indices in range and skips the others.
select_stacks_skipping(count, choice) ==
  LET pieces == StrSplit(choice)
      good == {i \in DOMAIN pieces : IsInt(pieces[i]) /\ ParseInt(pieces[i]) \in 1..count}
      RECURSIVE Keep(_)
      Keep(i) == IF i > Len(pieces) THEN << >>
                 ELSE (IF i \in good THEN << ParseInt(pieces[i]) >> ELSE << >>) \o Keep(i + 1)
  IN IF choice = << "a", "l", "l" >> THEN [ok |-> TRUE, idx |-> [i \in 1..count |-> i]]
     ELSE [ok |-> TRUE, idx |-> Keep(1)]

\* The selection step of interactive_destroy_stacks on `count` listed stacks:
\* the positions to destroy, in input order, or a rejection.
select_stacks(count, choice) ==
  LET pieces == StrSplit(choice)
      indices == [i \in DOMAIN pieces |-> ParseInt(pieces[i])]
  IN IF choice = << "a", "l", "l" >> THEN [ok |-> TRUE, idx |-> [i \in 1..count |-> i]]
     ELSE IF \E i \in DOMAIN pieces : ~IsInt(pieces[i]) THEN [ok |-> FALSE, idx |-> << >>]
     ELSE IF \E i \in DOMAIN indices : ~(1 <= indices[i] /\ indices[i] <= count)
          THEN [ok |-> FALSE, idx |-> << >>]
     ELSE [ok |-> TRUE, idx |-> indices]

\* A batch loop that gives up at the first stack it fails to destroy.
RECURSIVE destroy_batch_stopping(_, _, _, _)
destroy_batch_stopping(k, todo, envs, acc) ==
  IF k > Len(todo) \/ acc.raised \/ acc.failed_count > 0 THEN acc
  ELSE
    LET name == todo[k].name
        n == scenario_of(name)
        now == acc.bin
        temp == IF n \in now THEN << >> ELSE << Ev("write_bin", n) >>
        one == IF is_monitoring_stack(name) THEN destroy_monitoring_account(envs[k], now)
               ELSE IF n # 0 THEN
                 IF n \notin now /\ ~envs[k].write_bin THEN Raise(temp, now)
                 ELSE LET d == destroy_scenario(n, envs[k], now \cup {n})
                      IN [d EXCEPT !.log = temp \o d.log]
               ELSE Ret(FALSE, << >>, now)
    IN destroy_batch_stopping(k + 1, todo, envs,
         [ret |-> acc.ret, log |-> acc.log \o one.log, bin |-> one.bin,
          raised |-> one.raised,
          success_count |-> acc.success_count + (IF ~one.raised /\ one.ret THEN 1 ELSE 0),
          failed_count |-> acc.failed_count + (IF ~one.raised /\ ~one.ret THEN 1 ELSE 0),
          selected |-> acc.selected])

\* The batch loop of interactive_destroy_stacks from the k-th selected stack
\* on: each stack is destroyed by the function for its kind and counted.
RECURSIVE destroy_batch(_, _, _, _)
destroy_batch(k, todo, envs, acc) ==
  IF k > Len(todo) \/ acc.raised THEN acc
  ELSE
    LET name == todo[k].name
        n == scenario_of(name)
        now == acc.bin
        temp == IF n \in now THEN << >> ELSE << Ev("write_bin", n) >>
        one == IF is_monitoring_stack(name) THEN destroy_monitoring_account(envs[k], now)
               ELSE IF n # 0 THEN
                 IF n \notin now /\ ~envs[k].write_bin THEN Raise(temp, now)
                 ELSE LET d == destroy_scenario(n, envs[k], now \cup {n})
                      IN [d EXCEPT !.log = temp \o d.log]
               ELSE Ret(FALSE, << >>, now)
    IN destroy_batch(k + 1, todo, envs,
         [ret |-> acc.ret, log |-> acc.log \o one.log, bin |-> one.bin,
          raised |-> one.raised,
          success_count |-> acc.success_count + (IF ~one.raised /\ one.ret THEN 1 ELSE 0),
          failed_count |-> acc.failed_count + (IF ~one.raised /\ ~one.ret THEN 1 ELSE 0),
          selected |-> acc.selected])

\* What the operator may type at the "Type 'yes' to confirm" prompt.
YesAnswers == {"yes", "YES", "y", "no"}

\* interactive_destroy_stacks: True when at least one stack was destroyed.
interactive_destroy_stacks(env, files) ==
  LET listed == list_deployed_stacks(env, files)
      stacks == listed.ret
      choice == StrLower(StrStrip(env.ask_selection))
      sel == select_stacks(Len(stacks), choice)
      todo == [i \in DOMAIN sel.idx |-> stacks[sel.idx[i]]]
      l1 == listed.log
      l2 == l1 \o << Ev("ask_selection", 0) >>
      l3 == l2 \o << Ev("ask_yes", 0) >>
      Stop(log) == [ret |-> FALSE, log |-> log, bin |-> files, raised |-> FALSE,
                    success_count |-> 0, failed_count |-> 0, selected |-> << >>]
      done == destroy_batch(1, todo, env.destroys,
                [Stop(l3) EXCEPT !.selected = todo])
  IN IF stacks = << >> THEN Stop(l1)
     ELSE IF choice = << "q" >> THEN Stop(l2)
     ELSE IF ~sel.ok THEN Stop(l2)
     ELSE IF todo = << >> THEN Stop(l2)
     ELSE IF Lower(env.ask_yes) # "yes" THEN [Stop(l3) EXCEPT !.selected = todo]
     ELSE [done EXCEPT !.ret = done.success_count > 0]

-----------------------------------------------------------------------------
(* LoadGenerator.  A load command is logged with the output key naming its  *)
(* resource, its iteration i (in the field n) and its exit code.            *)

LoadEv(e, key, i, rc) == [e |-> e, n |-> i, key |-> key, rc |-> rc]

\* The load commands among the log entries.
LoadCommands == {"invoke", "put_item", "curl", "s3_upload", "s3_download"}

\* Which load commands fail: those among the first FailWindow commands that
\* are listed in `early`, and every later one when `rest` is non-zero.
FailWindow == 2

FailPatterns == [early : SUBSET (0..(FailWindow - 1)), rest : RCs]

NoFailures == [early |-> {}, rest |-> 0]

rc_of(fails, k) ==
  IF k < FailWindow THEN (IF k \in fails.early THEN 1 ELSE 0) ELSE fails.rest

\* Iterations per minute of load: one invocation every 5 seconds, one write
\* or round of tasks every 6 seconds.
InvokesPerMinute == 12

RoundsPerMinute == 10

\* The commands of one task in round i; an upload that succeeded is followed
\* by the download of the same object.
task_commands(task, i, rc) ==
  IF task.e = "s3_upload" /\ rc = 0
  THEN << LoadEv("s3_upload", task.key, i, rc), LoadEv("s3_download", task.key, i, 0) >>
  ELSE << LoadEv(task.e, task.key, i, rc) >>

\* The commands numbered lo..hi of a load loop over `tasks`, in order:
\* command k is the task (k % Len(tasks)) + 1 of round k \div Len(tasks).
RECURSIVE loop_commands(_, _, _, _)
loop_commands(tasks, lo, hi, fails) ==
  IF lo > hi THEN << >>
  ELSE IF lo = hi
       THEN task_commands(tasks[(lo % Len(tasks)) + 1], lo \div Len(tasks), rc_of(fails, lo))
       ELSE LET mid == (lo + hi) \div 2
            IN loop_commands(tasks, lo, mid, fails) \o loop_commands(tasks, mid + 1, hi, fails)

\* A loop that gives up at the first command that fails.
load_loop_aborting(tasks, k, iterations, fails) ==
  LET last == iterations * Len(tasks) - 1
      failing == {j \in k..last : rc_of(fails, j) # 0}
  IN IF failing = {} THEN loop_commands(tasks, k, last, fails)
     ELSE loop_commands(tasks, k, CHOOSE j \in failing : \A i \in failing : j <= i, fails)

\* for i in range(iterations): for task in tasks: run the task's command,
\* whatever the exit code of the one before.  k counts the commands so far.
load_loop(tasks, k, iterations, fails) ==
  loop_commands(tasks, k, iterations * Len(tasks) - 1, fails)

Task(e, key) == [e |-> e, key |-> key]

\* Every candidate kept as a task, its output key present or not.
present_tasks_unfiltered(candidates, outputs) == candidates

\* The tasks among `candidates` whose output key is present, in order.
RECURSIVE present_tasks(_, _)
present_tasks(candidates, outputs) ==
  IF candidates = << >> THEN << >>
  ELSE (IF Head(candidates).key \in outputs THEN << Head(candidates) >> ELSE << >>)
         \o present_tasks(Tail(candidates), outputs)

\* Scenario 1 with the iteration count of the writing scenarios.
iterations_scenario1_as_writes(duration) == duration * RoundsPerMinute

\* iterations = duration * 12
iterations_scenario1(duration) == duration * InvokesPerMinute

\* iterations = duration * 10
iterations_rounds(duration) == duration * RoundsPerMinute

\* generate_load_scenario1 (scenarios 1 and 6): Lambda invocations.
generate_load_scenario1(outputs, duration, fails, files) ==
  IF "LambdaFunctionName" \notin outputs THEN Ret(FALSE, << >>, files)
  ELSE Ret(TRUE, load_loop(<< Task("invoke", "LambdaFunctionName") >>, 0,
                           iterations_scenario1(duration), fails), files)

\* generate_load_scenario2: DynamoDB writes.
generate_load_scenario2(outputs, duration, fails, files) ==
  IF "TableName" \notin outputs THEN Ret(FALSE, << >>, files)
  ELSE Ret(TRUE, load_loop(<< Task("put_item", "TableName") >>, 0,
                           iterations_rounds(duration), fails), files)

\* generate_load_scenario3: the ALB, the two functions and the table, each
\* when present, once per round.
generate_load_scenario3(outputs, duration, fails, files) ==
  LET tasks == present_tasks(<< Task("curl", "ALBDNSName"), Task("invoke", "APIFunctionName"),
                                Task("invoke", "WorkerFunctionName"),
                                Task("put_item", "TableName") >>, outputs)
  IN IF tasks = << >> THEN Ret(FALSE, << >>, files)
     ELSE Ret(TRUE, load_loop(tasks, 0, iterations_rounds(duration), fails), files)

\* generate_load_scenario4: no command; the routine sleeps for the duration.
generate_load_scenario4(outputs, duration, fails, files) ==
  IF "ECSClusterName" \in outputs
  THEN Ret(TRUE, << Ev("sleep", duration * 60) >>, files)
  ELSE Ret(FALSE, << >>, files)

\* generate_load_scenario5: an S3 upload (and download) and a Lambda
\* invocation, each when present, once per round.
generate_load_scenario5(outputs, duration, fails, files) ==
  LET tasks == present_tasks(<< Task("s3_upload", "BucketName"),
                                Task("invoke", "LambdaFunctionName") >>, outputs)
  IN IF tasks = << >> THEN Ret(FALSE, << >>, files)
     ELSE Ret(TRUE, load_loop(tasks, 0, iterations_rounds(duration), fails), files)

\* The stdout of the Stacks[0].Outputs query: a JSON list of outputs (their
\* keys), nothing at all, or the JSON null of a stack without outputs.
Outputs(keys) == [rc |-> 0, kind |-> "list", keys |-> keys]

NoOutputs(rc, kind) == [rc |-> rc, kind |-> kind, keys |-> {}]

\* generate_load: the stack's outputs are fetched and handed to the
\* generator of the scenario.
generate_load(n, duration, env, files) ==
  LET l1 == << Ev("describe_outputs", n) >>
      outputs == env.describe_outputs.keys
      run == CASE n \in {1, 6} -> generate_load_scenario1(outputs, duration, env.fails, files)
               [] n = 2 -> generate_load_scenario2(outputs, duration, env.fails, files)
               [] n = 3 -> generate_load_scenario3(outputs, duration, env.fails, files)
               [] n = 4 -> generate_load_scenario4(outputs, duration, env.fails, files)
               [] n = 5 -> generate_load_scenario5(outputs, duration, env.fails, files)
               [] OTHER -> Ret(FALSE, << >>, files)
  IN IF env.describe_outputs.rc # 0 THEN Ret(FALSE, l1, files)
     ELSE IF env.describe_outputs.kind = "null" THEN Raise(l1, files)
     ELSE [run EXCEPT !.log = l1 \o run.log]

-----------------------------------------------------------------------------
(* MenuController: the remaining functions main calls.                      *)

\* test_scenario: two queries, whose failures are ignored; always True.
test_scenario(n, env, files) ==
  Ret(TRUE, << Ev("list_dashboards", n), Ev("list_links", n) >>, files)

\* show_grafana_info: True when the monitoring stack exists and its outputs
\* hold a public Grafana URL.
show_grafana_info(env, files) ==
  LET l1 == << Ev("describe_stack", 0) >>
      l2 == l1 \o << Ev("describe_outputs", 0) >>
  IN IF env.describe_stack.rc # 0 THEN Ret(FALSE, l1, files)
     ELSE IF env.describe_outputs.rc # 0 THEN Ret(FALSE, l2, files)
     ELSE IF env.describe_outputs.kind = "null" THEN Raise(l2, files)
     ELSE Ret("GrafanaURL" \in env.describe_outputs.keys, l2, files)

\* The menu choices, after strip().
MenuChoices ==
  {"0", "A", "a", "1", "2", "3", "4", "5", "6", "l", "L", "t", "T", "g", "G",
   "d", "D", "M", "m", "q", "Q", "x", ""}

\* The scenario choices read as positions counted from zero.
ChoiceNum_zero_based(choice) == (CHOOSE n \in ScenarioNums : ToString(n) = choice) - 1

\* int(choice) for the scenario choices.
ChoiceNum(choice) == CHOOSE n \in ScenarioNums : ToString(n) = choice

\* The if/elif chain of main's loop: the first branch whose test the choice
\* passes.
\* The if/elif chain of the menu with its final else sent to the listing
\* branch.
dispatch_listing_by_default(choice) ==
  IF Lower(choice) = "q" THEN "quit"
  ELSE IF choice = "0" THEN "deploy_monitoring"
  ELSE IF Upper(choice) = "A" THEN "deploy_adot"
  ELSE IF choice \in {"1", "2", "3", "4", "5", "6"} THEN "deploy_scenario"
  ELSE IF Lower(choice) = "t" THEN "test"
  ELSE IF Lower(choice) = "g" THEN "generate_load"
  ELSE IF Upper(choice) = "D" THEN "interactive_destroy"
  ELSE IF Upper(choice) = "M" THEN "destroy_monitoring"
  ELSE "list"

dispatch(choice) ==
  IF Lower(choice) = "q" THEN "quit"
  ELSE IF choice = "0" THEN "deploy_monitoring"
  ELSE IF Upper(choice) = "A" THEN "deploy_adot"
  ELSE IF choice \in {"1", "2", "3", "4", "5", "6"} THEN "deploy_scenario"
  ELSE IF choice = "t" THEN "test"
  ELSE IF Lower(choice) = "l" THEN "list"
  ELSE IF Lower(choice) = "t" THEN "test"
  ELSE IF Lower(choice) = "g" THEN "generate_load"
  ELSE IF Upper(choice) = "G" THEN "grafana"
  ELSE IF Upper(choice) = "D" THEN "interactive_destroy"
  ELSE IF Lower(choice) = "d" THEN "destroy_current"
  ELSE IF Upper(choice) = "M" THEN "destroy_monitoring"
  ELSE "invalid"

\* The sink test applied to scenario 2 alone.
requires_sink_only_2(n, sink) == n = 2 /\ ~Truthy(sink)

\* scenario_num in [2, 6] and not sink_arn
requires_sink(n, sink) == n \in SinkScenarios /\ ~Truthy(sink)

\* The sink ARN main hands to deploy_scenario.
sink_passed(n, sink, use_sink) == IF n \in SinkScenarios \/ use_sink THEN sink ELSE None

-----------------------------------------------------------------------------
(* SpecState: save_state followed by load_state on one project root.        *)

InitState ==
  /\ pc = "save_state"
  /\ current_scenario \in StateScenarios
  /\ sink_arn \in StateSinks
  /\ state_file \in BrokenFiles \cup {TextFile(json_dump(PyInt(1), None))}
  /\ bin = {}
  /\ call = NoCall
  /\ result = NoResult

SaveState ==
  /\ pc = "save_state"
  /\ \E wr \in WriteOutcomesOn(state_file) :
       /\ state_file' = save_state(state_file, current_scenario, sink_arn, wr)
       /\ call' = [fn |-> "save_state", wr |-> wr]
  /\ pc' = "load_state"
  /\ UNCHANGED <<current_scenario, sink_arn, bin, result>>

LoadState ==
  /\ pc = "load_state"
  /\ result' = [ret |-> load_state(state_file), log |-> << >>, bin |-> bin, raised |-> FALSE]
  /\ pc' = "done"
  /\ UNCHANGED <<current_scenario, sink_arn, state_file, bin, call>>

NextState == SaveState \/ LoadState

SpecState == InitState /\ [][NextState]_vars

\* C4: after a save_state whose write completed, load_state on the same
\* project root returns a record whose current_scenario and sink_arn are the
\* values that were written.
C4_RoundTrip ==
  (pc = "done" /\ call.fn = "save_state" /\ call.wr = "ok") =>
    /\ result.ret.kind = "dict"
    /\ dict_get(result.ret.d, "current_scenario") = current_scenario
    /\ dict_get(result.ret.d, "sink_arn") = sink_arn

\* C4 witness: scenario 3 and a sink ARN were written and read back.
C4_Witness ==
  /\ pc = "done" /\ call.fn = "save_state" /\ call.wr = "ok"
  /\ current_scenario = PyInt(3) /\ sink_arn = PyStr("arn:x")
  /\ dict_get(result.ret.d, "current_scenario") = PyInt(3)
  /\ dict_get(result.ret.d, "sink_arn") = PyStr("arn:x")

-----------------------------------------------------------------------------
(* SpecDeploy: one call of deploy_monitoring_account or deploy_scenario,    *)
(* from any bin/ directory and with or without a sink ARN.                  *)

InitDeploy ==
  /\ pc = "deploy"
  /\ current_scenario = None
  /\ sink_arn \in {None, PyStr("arn:x")}
  /\ state_file = NoFile
  /\ \E n \in {0} \cup ScenarioNums :
       /\ bin \in {{}, {n}}
       /\ call = [fn |-> IF n = 0 THEN "deploy_monitoring_account" ELSE "deploy_scenario",
                  n |-> n, sink |-> sink_arn, files |-> bin, env |-> DefaultDeployEnv]
  /\ result = NoResult

DeployMonitoring ==
  /\ pc = "deploy"
  /\ call.fn = "deploy_monitoring_account"
  /\ \E env \in MonDeployEnvs :
       /\ result' = deploy_monitoring_account(env, bin)
       /\ call' = [call EXCEPT !.env = env]
  /\ bin' = result'.bin
  /\ pc' = "done"
  /\ UNCHANGED <<current_scenario, sink_arn, state_file>>

DeployScenario ==
  /\ pc = "deploy"
  /\ call.fn = "deploy_scenario"
  /\ \E env \in ScenDeployEnvs :
       /\ result' = deploy_scenario(call.n, call.sink, env, bin)
       /\ call' = [call EXCEPT !.env = env]
  /\ bin' = result'.bin
  /\ pc' = "done"
  /\ UNCHANGED <<current_scenario, sink_arn, state_file>>

NextDeploy == DeployMonitoring \/ DeployScenario

SpecDeploy == InitDeploy /\ [][NextDeploy]_vars

\* The identity check answered with an account other than the monitoring one.
C2_Mismatch ==
  /\ pc = "done"
  /\ call.fn = "deploy_monitoring_account"
  /\ call.env.sts.rc = 0
  /\ call.env.sts.id.json
  /\ call.env.sts.id.hasAccount
  /\ call.env.sts.id.Account # MonitoringAccountId

\* C2: when the identity check reports another account than the configured
\* monitoring account, deploy_monitoring_account returns None having issued
\* the identity check alone: bin/deploy-monitoring.ts is not written and no
\* bootstrap, synth or deploy command is issued.
C2_FailsBeforeGeneration ==
  C2_Mismatch =>
    /\ ~result.raised
    /\ result.ret = None
    /\ result.log = << Ev("sts", 0) >>
    /\ Asked(result.log) \cap {"write_bin", "describe_toolkit", "bootstrap", "synth", "deploy"} = {}
    /\ bin = call.files

\* C2 witness: authenticated as the application account, no entry point there.
C2_Witness ==
  /\ C2_Mismatch
  /\ call.env.sts.id.Account = ApplicationAccountId
  /\ call.files = {}
  /\ bin = {}
  /\ result.ret = None

-----------------------------------------------------------------------------
(* SpecDestroy: one call of destroy_scenario, destroy_monitoring_account or *)
(* interactive_destroy_stacks.                                              *)

\* Bounds: the stacks the application account lists, the length of the text
\* typed at the selection prompt, and the stacks of a batch whose destroy
\* calls get other answers than the default ones.
MaxAppStacks == 3

MaxChoiceLen == 3

BatchWindow == 2

\* The k-th stack the application account lists.
AppStackName(k) == IF k = 3 THEN "MonitoringDashboardStack" ELSE ScenarioStack(k)

MonListings ==
  {Listing(1, << >>), Listing(0, << >>), Listing(0, << MonitoringStack >>)}

AppListings ==
  {Listing(1, << >>)} \cup
  {Listing(0, [i \in 1..k |-> AppStackName(i)]) : k \in 0..MaxAppStacks}

\* The characters typed at the selection prompt.
SelChars == {"1", "2", "4", "7", ",", " ", "x", "-"}

SelectionTexts ==
  UNION {[1..k -> SelChars] : k \in 0..MaxChoiceLen}
    \cup {<< "a", "l", "l" >>, << "A", "L", "L" >>, << " ", "a", "l", "l" >>, << "q" >>, << "Q" >>}

\* The longest batch a selection can name.
MaxBatch == MaxChoiceLen + MaxAppStacks + 1

\* The answers one stack of a batch can get.
BatchAnswers ==
  { DefaultDestroyEnv,
    [DefaultDestroyEnv EXCEPT !.describe_stack = [rc |-> 1, err |-> "Stack with id X does not exist"]],
    [DefaultDestroyEnv EXCEPT !.describe_stack = [rc |-> 1, err |-> "AccessDenied"]],
    [DefaultDestroyEnv EXCEPT !.ask_destroy = "n"],
    [DefaultDestroyEnv EXCEPT !.destroy = 1],
    [DefaultDestroyEnv EXCEPT !.write_bin = FALSE] }

\* The answers of a whole batch: any for its first BatchWindow stacks, the
\* default ones after.
BatchEnvs ==
  {[k \in 1..MaxBatch |-> IF k <= BatchWindow THEN early[k] ELSE DefaultDestroyEnv] :
     early \in [1..BatchWindow -> BatchAnswers]}

DefaultBatchEnv == [k \in 1..MaxBatch |-> DefaultDestroyEnv]

\* The environment of one interactive_destroy_stacks call.
InteractiveEnv(mon, app, text, yes, destroys) ==
  [list_mon |-> mon, list_app |-> app, ask_selection |-> text, ask_yes |-> yes,
   destroys |-> destroys]

\* A batch of more than one kind of answer is tried on a few selections, and
\* every selection with the default answers.
FewTexts == {<< "a", "l", "l" >>, << "1" >>, << "1", ",", "1" >>, << "2", ",", "1" >>}

InteractiveChoices ==
  {c \in [text : SelectionTexts, yes : YesAnswers, destroys : {DefaultBatchEnv}] : TRUE}
    \cup [text : FewTexts, yes : {"yes"}, destroys : BatchEnvs]

InitDestroy ==
  /\ pc = "destroy"
  /\ current_scenario = None
  /\ sink_arn = None
  /\ state_file = NoFile
  /\ \/ \E n \in ScenarioNums :
          /\ bin \in {{}, {n}}
          /\ call = [fn |-> "destroy_scenario", n |-> n, files |-> bin,
                     env |-> DefaultDestroyEnv]
     \/ /\ bin \in {{}, {0}}
        /\ call = [fn |-> "destroy_monitoring_account", n |-> 0, files |-> bin,
                   env |-> DefaultDestroyEnv]
     \/ \E mon \in MonListings, app \in AppListings :
          /\ bin \in {{}, {0, 1, 2}}
          /\ call = [fn |-> "interactive_destroy_stacks", n |-> 0, files |-> bin,
                     env |-> InteractiveEnv(mon, app, << >>, "", DefaultBatchEnv)]
  /\ result = NoResult

DestroyScenario ==
  /\ pc = "destroy"
  /\ call.fn = "destroy_scenario"
  /\ \E env \in ScenDestroyEnvs(call.n, bin) :
       /\ result' = destroy_scenario(call.n, env, bin)
       /\ call' = [call EXCEPT !.env = env]
  /\ bin' = result'.bin
  /\ pc' = "done"
  /\ UNCHANGED <<current_scenario, sink_arn, state_file>>

DestroyMonitoring ==
  /\ pc = "destroy"
  /\ call.fn = "destroy_monitoring_account"
  /\ \E env \in MonDestroyEnvs(bin) :
       /\ result' = destroy_monitoring_account(env, bin)
       /\ call' = [call EXCEPT !.env = env]
  /\ bin' = result'.bin
  /\ pc' = "done"
  /\ UNCHANGED <<current_scenario, sink_arn, state_file>>

InteractiveDestroy ==
  /\ pc = "destroy"
  /\ call.fn = "interactive_destroy_stacks"
  /\ \E c \in InteractiveChoices :
       \E env \in {InteractiveEnv(call.env.list_mon, call.env.list_app,
                                   c.text, c.yes, c.destroys)} :
       \E r \in {interactive_destroy_stacks(env, bin)} :
          /\ "ask_yes" \notin Asked(r.log) => c.yes = "yes"
          /\ result' = r
          /\ call' = [call EXCEPT !.env = env]
  /\ bin' = result'.bin
  /\ pc' = "done"
  /\ UNCHANGED <<current_scenario, sink_arn, state_file>>

NextDestroy == DestroyScenario \/ DestroyMonitoring \/ InteractiveDestroy

SpecDestroy == InitDestroy /\ [][NextDestroy]_vars

\* The existence check of a destroy call failed with "does not exist".
C3_Absent ==
  /\ pc = "done"
  /\ call.fn \in {"destroy_scenario", "destroy_monitoring_account"}
  /\ call.env.describe_stack.rc # 0
  /\ call.env.describe_stack.err = "Stack with id X does not exist"

\* C3: when the existence check exits non-zero with "does not exist" in its
\* stderr, destroy_scenario and destroy_monitoring_account return True, ask
\* for no confirmation and never issue the destroy command.
C3_DestroyWhenAbsent ==
  C3_Absent =>
    /\ ~result.raised
    /\ result.ret = TRUE
    /\ Asked(result.log) \cap {"ask_destroy", "destroy"} = {}

\* C3 witness: destroy_scenario on an absent stack whose entry point remained.
C3_Witness ==
  /\ C3_Absent
  /\ call.fn = "destroy_scenario"
  /\ call.n \in call.files
  /\ result.ret = TRUE
  /\ result.log = << Ev("describe_stack", call.n), Ev("remove_bin", call.n) >>

\* The stacks an interactive_destroy_stacks call listed, and the selection
\* typed, as the code reads it.
ListedStacks == list_deployed_stacks(call.env, {}).ret

TypedChoice == StrLower(StrStrip(call.env.ask_selection))

TypedPieces == StrSplit(TypedChoice)

\* The call got a selection that is a list of entries (not `q`, not `all`).
TypedList ==
  /\ pc = "done"
  /\ call.fn = "interactive_destroy_stacks"
  /\ ListedStacks # << >>
  /\ TypedChoice \notin {<< "q" >>, << "a", "l", "l" >>}

\* Every entry typed is an integer within 1..N.
AllInRange ==
  \A i \in DOMAIN TypedPieces :
    IsInt(TypedPieces[i]) /\ ParseInt(TypedPieces[i]) \in 1..Len(ListedStacks)

\* C6: a comma-separated input of indices all within 1..N selects exactly the
\* stacks at those positions, and the input "all" selects all N listed stacks.
C6_SelectionExact ==
  /\ (TypedList /\ AllInRange) =>
       /\ Len(result.selected) = Len(TypedPieces)
       /\ \A i \in DOMAIN TypedPieces :
            result.selected[i] = ListedStacks[ParseInt(TypedPieces[i])]
  /\ (/\ pc = "done"
      /\ call.fn = "interactive_destroy_stacks"
      /\ ListedStacks # << >>
      /\ TypedChoice = << "a", "l", "l" >>) => result.selected = ListedStacks

\* C6 witness: with four stacks listed, "2,4" selected the second and fourth.
C6_Witness ==
  /\ TypedList
  /\ Len(ListedStacks) = 4
  /\ call.env.ask_selection = << "2", ",", "4" >>
  /\ result.selected = << ListedStacks[2], ListedStacks[4] >>

\* C7: if any entry of the selection is out of the range 1..N or is not an
\* integer, the call returns False without asking for confirmation and
\* without destroying, writing or removing anything.
C7_InvalidRejectsAll ==
  (TypedList /\ ~AllInRange) =>
    /\ ~result.raised
    /\ result.ret = FALSE
    /\ result.selected = << >>
    /\ result.log = << Ev("list_stacks", 0), Ev("list_stacks", 1), Ev("ask_selection", 0) >>
    /\ bin = call.files

\* C7 witness: "1,7" names a listed stack and then an index out of range.
C7_Witness ==
  /\ TypedList
  /\ call.env.ask_selection = << "1", ",", "7" >>
  /\ Len(ListedStacks) >= 1
  /\ result.ret = FALSE
  /\ "destroy" \notin Asked(result.log)

-----------------------------------------------------------------------------
(* SpecLoad: one call of generate_load for a scenario and a duration.       *)

\* Bound: the longest duration, in minutes.
MaxDuration == 5

Durations == 1..MaxDuration

\* The output keys the generator of scenario n looks for.
TaskKeys(n) ==
  CASE n \in {1, 6} -> {"LambdaFunctionName"}
    [] n = 2 -> {"TableName"}
    [] n = 3 -> {"ALBDNSName", "APIFunctionName", "WorkerFunctionName", "TableName"}
    [] n = 4 -> {"ECSClusterName"}
    [] n = 5 -> {"BucketName", "LambdaFunctionName"}
    [] OTHER -> {}

\* The environments of one generate_load call: the outputs query fails, or
\* yields nothing, null, or any of the keys of the scenario (beside a key no
\* generator reads); the load commands fail in any pattern.
LoadEnvs(n) ==
  {[describe_outputs |-> NoOutputs(1, "none"), fails |-> NoFailures],
   [describe_outputs |-> NoOutputs(0, "empty"), fails |-> NoFailures],
   [describe_outputs |-> NoOutputs(0, "null"), fails |-> NoFailures],
   [describe_outputs |-> Outputs({"ECSServiceName"}), fails |-> NoFailures]}
    \cup {[describe_outputs |-> Outputs(keys \cup {"ECSServiceName"}), fails |-> f] :
            keys \in (SUBSET TaskKeys(n)) \ {{}}, f \in FailPatterns}

InitLoad ==
  /\ pc = "generate_load"
  /\ current_scenario \in {PyInt(n) : n \in ScenarioNums}
  /\ sink_arn = None
  /\ state_file = NoFile
  /\ bin = {}
  /\ \E d \in Durations :
       call = [fn |-> "generate_load", n |-> current_scenario.n, duration |-> d,
               env |-> [describe_outputs |-> NoOutputs(1, "none"), fails |-> NoFailures]]
  /\ result = NoResult

GenerateLoad ==
  /\ pc = "generate_load"
  /\ \E env \in LoadEnvs(call.n) :
       /\ result' = generate_load(call.n, call.duration, env, bin)
       /\ call' = [call EXCEPT !.env = env]
  /\ pc' = "done"
  /\ UNCHANGED <<current_scenario, sink_arn, state_file, bin>>

NextLoad == GenerateLoad

SpecLoad == InitLoad /\ [][NextLoad]_vars

\* The load commands of the log, and those among them named e.
LoadEntries(log) == {i \in DOMAIN log : log[i].e \in LoadCommands}

\* generate_load returned after an outputs query that held the key `key`.
LoadedWith(ns, key) ==
  /\ pc = "done"
  /\ call.fn = "generate_load"
  /\ call.n \in ns
  /\ call.env.describe_outputs.rc = 0
  /\ call.env.describe_outputs.kind = "list"
  /\ key \in call.env.describe_outputs.keys

\* C8: with the required output present, load generation for scenario 1 or 6
\* issues exactly duration*12 invoke commands, and for scenario 2 exactly
\* duration*10 put-item commands; these are all the load commands issued.
C8_IterationCounts ==
  /\ LoadedWith({1, 6}, "LambdaFunctionName") =>
       /\ Count(result.log, "invoke") = call.duration * 12
       /\ Cardinality(LoadEntries(result.log)) = call.duration * 12
  /\ LoadedWith({2}, "TableName") =>
       /\ Count(result.log, "put_item") = call.duration * 10
       /\ Cardinality(LoadEntries(result.log)) = call.duration * 10

\* C8 witness: 60 invocations for scenario 1 and five minutes.
C8_Witness ==
  /\ LoadedWith({1}, "LambdaFunctionName")
  /\ call.duration = 5
  /\ Count(result.log, "invoke") = 60

\* The rounds the loop of scenario n makes in `duration` minutes.
C9_Rounds(n, duration) == IF n \in {1, 6} THEN duration * 12 ELSE duration * 10

\* generate_load reached the loop of a scenario that has one.
C9_LoopRan ==
  /\ pc = "done"
  /\ call.fn = "generate_load"
  /\ call.n \in {1, 2, 3, 5, 6}
  /\ call.env.describe_outputs.rc = 0
  /\ call.env.describe_outputs.kind = "list"
  /\ call.env.describe_outputs.keys \cap TaskKeys(call.n) # {}

\* C9: whatever load commands fail, the loop is neither aborted nor
\* shortened: every round issues the command of every resource present, and
\* the routine returns True.
C9_FailuresDoNotAbort ==
  C9_LoopRan =>
    /\ ~result.raised
    /\ result.ret = TRUE
    /\ \A key \in call.env.describe_outputs.keys \cap TaskKeys(call.n) :
         \A i \in 0..(C9_Rounds(call.n, call.duration) - 1) :
           \E j \in LoadEntries(result.log) :
             result.log[j].key = key /\ result.log[j].n = i

\* C9 witness: every load command of a scenario 3 run failed, and the last
\* round was still made.
C9_Witness ==
  /\ C9_LoopRan
  /\ call.n = 3
  /\ call.env.fails = [early |-> 0..(FailWindow - 1), rest |-> 1]
  /\ result.ret = TRUE
  /\ \A j \in LoadEntries(result.log) : result.log[j].rc = 1
  /\ \E j \in LoadEntries(result.log) : result.log[j].n = call.duration * 10 - 1

-----------------------------------------------------------------------------
(* Spec: main.  One action per branch of the menu loop; an action is the    *)
(* whole turn, from the choice typed to the end of the branch.  pc is       *)
(* "loop" at the head of the while loop and "menu" at the prompt.  The      *)
(* files of bin/ outlive the session and are shared with the operator, so   *)
(* each turn finds them as its environment has them.                        *)

\* The state file when the program starts: broken, or written by an earlier
\* session.
StartFiles ==
  BrokenFiles \cup
  {TextFile(json_dump(None, PyStr("arn:x"))), TextFile(json_dump(PyInt(2), PyStr("arn:x"))),
   TextFile(json_dump(PyInt(6), PyStr(""))), TextFile(json_dump(PyInt(1), None))}

\* The menu choices typed, after strip(); of the scenarios, one that needs
\* no sink and the two that need one.
MainChoices == {"0", "A", "1", "2", "6", "l", "t", "g", "G", "d", "D", "M", "q", "x"}

\* Writes of the state file succeed, fail at open() or break off.
MainWriteOutcomes(file) == WriteOutcomesOn(file)

\* A deploy in which every step succeeds, in the account acct.
GoodDeployEnv(acct) ==
  [DefaultDeployEnv EXCEPT !.sts = [rc |-> 0, id |-> Identity(acct)],
                           !.describe_outputs = [rc |-> 0, out |-> "arn:x\n"]]

\* The deploys of the monitoring account: the identity check fails, answers
\* with no JSON or with the other account, the operator declines, the deploy
\* fails, the SinkArn query prints nothing, or all succeeds.
MainMonDeployEnvs ==
  LET good == GoodDeployEnv(MonitoringAccountId)
  IN { DefaultDeployEnv,
       [DefaultDeployEnv EXCEPT !.sts = [rc |-> 0, id |-> NoIdentity]],
       [DefaultDeployEnv EXCEPT !.sts = [rc |-> 0, id |-> Identity(ApplicationAccountId)]],
       [good EXCEPT !.ask_deploy = "n", !.describe_outputs = DefaultDeployEnv.describe_outputs],
       [good EXCEPT !.deploy = 1, !.describe_outputs = DefaultDeployEnv.describe_outputs],
       [good EXCEPT !.describe_outputs = [rc |-> 0, out |-> ""]],
       good }

\* The deploys of a scenario: the identity check fails, the bootstrap or the
\* synth fails, the operator declines, or all succeeds.
MainScenDeployEnvs ==
  LET good == [GoodDeployEnv(ApplicationAccountId)
                 EXCEPT !.describe_outputs = DefaultDeployEnv.describe_outputs]
  IN { DefaultDeployEnv,
       [good EXCEPT !.describe_toolkit = 1, !.bootstrap = 1],
       [good EXCEPT !.synth = 1],
       [good EXCEPT !.ask_deploy = "n"],
       good }

\* The destroys: the stack is absent, the operator declines, the entry point
\* cannot be written, the destroy fails, or all succeeds.
MainDestroyEnvs ==
  { [DefaultDestroyEnv EXCEPT !.describe_stack = [rc |-> 1, err |-> "Stack with id X does not exist"]],
    [DefaultDestroyEnv EXCEPT !.ask_destroy = "n"],
    [DefaultDestroyEnv EXCEPT !.write_bin = FALSE],
    [DefaultDestroyEnv EXCEPT !.destroy = 1],
    DefaultDestroyEnv }

\* The listings a turn of main gets.
MainListings ==
  {[list_mon |-> Listing(1, << >>), list_app |-> Listing(1, << >>)],
   [list_mon |-> Listing(0, << MonitoringStack >>),
    list_app |-> Listing(0, << ScenarioStack(2), ScenarioStack(1) >>)]}

\* The batches of a turn of main: every stack is selected and every destroy
\* succeeds, or the first stack is selected twice and its first destroy
\* fails.
MainBatches ==
  {[text |-> << "a", "l", "l" >>, destroys |-> DefaultBatchEnv],
   [text |-> << "1", ",", "1" >>,
    destroys |-> [DefaultBatchEnv EXCEPT ![1] = [DefaultDestroyEnv EXCEPT !.destroy = 1]]]}

\* What is typed at the duration prompt.
DurationTexts == {<< >>, << " ", "1" >>, << "3", "1" >>, << "0" >>, << "x" >>}

\* The outputs query fails, or yields the keys of the scenario, with all or
\* none of the load commands failing.
MainLoadEnvs(n) ==
  {[describe_outputs |-> NoOutputs(1, "none"), fails |-> NoFailures],
   [describe_outputs |-> Outputs(TaskKeys(n)), fails |-> NoFailures],
   [describe_outputs |-> Outputs(TaskKeys(n)),
    fails |-> [early |-> 0..(FailWindow - 1), rest |-> 1]]}

GrafanaEnvs ==
  {[describe_stack |-> [rc |-> 1, err |-> "AccessDenied"],
    describe_outputs |-> NoOutputs(1, "none")],
   [describe_stack |-> [rc |-> 0, err |-> ""], describe_outputs |-> Outputs({"GrafanaURL"})]}

\* The turn just taken: the choice typed, the branch it took, the functions
\* the branch called, and what deploy_scenario or generate_load was given.
MainCall(choice, handler, calls, n, sink, duration, env) ==
  [fn |-> "main", choice |-> choice, handler |-> handler, calls |-> calls,
   n |-> n, sink |-> sink, duration |-> duration, env |-> env]

\* The log of a turn: main's own prompts before the call, its list and save
\* after it.
WithLog(r, before, after) == [r EXCEPT !.log = before \o r.log \o after]

\* The call of save_state in the log, with how its write ended.
SaveEv(wr) == << [e |-> "save_state", n |-> 0, wr |-> wr] >>

\* A turn whose save_state lets the failure of its write escape: the
\* exception leaves the loop.
EndTurn_aborting_unsaved(r, cs2, sa2, file2) ==
  /\ result' = r
  /\ bin' = r.bin
  /\ IF r.raised \/ \E i \in DOMAIN r.log : r.log[i].e = "save_state" /\ r.log[i].wr # "ok"
     THEN pc' = "crashed" /\ UNCHANGED <<current_scenario, sink_arn, state_file>>
     ELSE /\ pc' = "loop"
          /\ current_scenario' = cs2
          /\ sink_arn' = sa2
          /\ state_file' = file2

\* The end of a turn: an exception leaves the loop, anything else goes back
\* to its head with the new values.
EndTurn(r, cs2, sa2, file2) ==
  /\ result' = r
  /\ bin' = r.bin
  /\ IF r.raised
     THEN pc' = "crashed" /\ UNCHANGED <<current_scenario, sink_arn, state_file>>
     ELSE /\ pc' = "loop"
          /\ current_scenario' = cs2
          /\ sink_arn' = sa2
          /\ state_file' = file2

Init ==
  /\ pc = "start"
  /\ current_scenario = None
  /\ sink_arn = None
  /\ state_file \in StartFiles
  /\ bin = {}
  /\ call = NoCall
  /\ result = NoResult

\* main up to the loop: load_config, build_project, load_state and the two
\* state.get calls, which raise AttributeError on a value that is no dict.
Startup ==
  /\ pc = "start"
  /\ \E config_ok \in BOOLEAN, build \in RCs :
       LET state == load_state(state_file)
           env == [config_ok |-> config_ok, build |-> build]
       IN /\ ~config_ok => build = 0
          /\ call' = MainCall("", "startup", << "load_state" >>, 0, None, 0, env)
          /\ IF ~config_ok THEN
               /\ pc' = "exited"
               /\ result' = Ret(FALSE, << >>, bin)
               /\ UNCHANGED <<current_scenario, sink_arn>>
             ELSE IF build # 0 THEN
               /\ pc' = "exited"
               /\ result' = Ret(FALSE, << Ev("build", 0) >>, bin)
               /\ UNCHANGED <<current_scenario, sink_arn>>
             ELSE IF state.kind # "dict" THEN
               /\ pc' = "crashed"
               /\ result' = Raise(<< Ev("build", 0) >>, bin)
               /\ UNCHANGED <<current_scenario, sink_arn>>
             ELSE
               /\ pc' = "loop"
               /\ result' = Ret(TRUE, << Ev("build", 0) >>, bin)
               /\ sink_arn' = dict_get(state.d, "sink_arn")
               /\ current_scenario' = dict_get(state.d, "current_scenario")
  /\ UNCHANGED <<state_file, bin>>

\* show_menu and the prompt for a choice.  The turn before is over: what it
\* called and returned is forgotten, and so is what it left in bin/.
ShowMenu ==
  /\ pc = "loop"
  /\ pc' = "menu"
  /\ call' = NoCall
  /\ result' = NoResult
  /\ bin' = {}
  /\ UNCHANGED <<current_scenario, sink_arn, state_file>>

\* q, Q
MenuQuit ==
  /\ pc = "menu"
  /\ \E choice \in MainChoices :
       /\ dispatch(choice) = "quit"
       /\ call' = MainCall(choice, "quit", << >>, 0, None, 0, << >>)
  /\ pc' = "exited"
  /\ result' = Ret(TRUE, << >>, bin)
  /\ UNCHANGED <<current_scenario, sink_arn, state_file, bin>>

\* 0, and A/a after a `y`: deploy_monitoring_account, whose return value is
\* assigned to sink_arn, and saved when it is truthy.
MenuDeployMonitoring ==
  /\ pc = "menu"
  /\ \E choice \in MainChoices :
       LET handler == dispatch(choice)
       IN /\ handler \in {"deploy_monitoring", "deploy_adot"}
          /\ \/ /\ handler = "deploy_adot"
                /\ call' = MainCall(choice, handler, << >>, 0, None, 0, "n")
                /\ EndTurn(Ret(FALSE, << Ev("ask_adot", 0) >>, {}),
                           current_scenario, sink_arn, state_file)
             \/ \E files \in {{}}, env \in MainMonDeployEnvs,
                   wr \in MainWriteOutcomes(state_file) :
                  \E r \in {deploy_monitoring_account(env, files)} :
                  LET asks == IF handler = "deploy_adot"
                              THEN << Ev("ask_adot", 0), Ev("ask_ci", 0) >>
                              ELSE << Ev("ask_ci", 0) >>
                      saved == ~r.raised /\ Truthy(r.ret)
                  IN /\ ~saved => wr = "open_fails"
                     /\ call' = MainCall(choice, handler, << "deploy_monitoring_account" >>,
                                         0, None, 0, env)
                     /\ EndTurn(WithLog(r, asks, IF saved THEN SaveEv(wr) ELSE << >>),
                                current_scenario, r.ret,
                                IF saved
                                THEN save_state(state_file, current_scenario, r.ret, wr)
                                ELSE state_file)

\* 1..6: deploy_scenario, unless the scenario needs a sink and there is none;
\* a deployed scenario becomes the current one and is saved.
MenuDeployScenario ==
  /\ pc = "menu"
  /\ \E choice \in MainChoices :
       /\ dispatch(choice) = "deploy_scenario"
       /\ LET n == ChoiceNum(choice)
              offered == n \notin SinkScenarios /\ Truthy(sink_arn)
          IN IF requires_sink(n, sink_arn)
             THEN /\ call' = MainCall(choice, "deploy_scenario", << >>, n, None, 0,
                                      DefaultDeployEnv)
                  /\ EndTurn(Ret(FALSE, << >>, {}), current_scenario, sink_arn, state_file)
             ELSE \E use \in {"y", "n"}, files \in {{}}, env \in MainScenDeployEnvs,
                     wr \in MainWriteOutcomes(state_file) :
                    \E passed \in {sink_passed(n, sink_arn, offered /\ use = "y")} :
                    \E r \in {deploy_scenario(n, passed, env, files)} :
                    LET asks == IF offered THEN << Ev("ask_use_sink", n) >> ELSE << >>
                        saved == ~r.raised /\ r.ret
                    IN /\ ~offered => use = "n"
                       /\ ~saved => wr = "open_fails"
                       /\ call' = MainCall(choice, "deploy_scenario", << "deploy_scenario" >>,
                                           n, passed, 0, env)
                       /\ EndTurn(WithLog(r, asks, IF saved THEN SaveEv(wr) ELSE << >>),
                                  IF saved THEN PyInt(n) ELSE current_scenario, sink_arn,
                                  IF saved THEN save_state(state_file, PyInt(n), sink_arn, wr)
                                  ELSE state_file)

\* t, T: test_scenario on the current scenario, when there is one.
MenuTest ==
  /\ pc = "menu"
  /\ \E choice \in MainChoices :
       /\ dispatch(choice) = "test"
       /\ IF Truthy(current_scenario)
          THEN /\ call' = MainCall(choice, "test", << "test_scenario" >>,
                                   current_scenario.n, None, 0, << >>)
               /\ EndTurn(test_scenario(current_scenario.n, << >>, {}),
                          current_scenario, sink_arn, state_file)
          ELSE /\ call' = MainCall(choice, "test", << >>, 0, None, 0, << >>)
               /\ EndTurn(Ret(FALSE, << >>, {}), current_scenario, sink_arn, state_file)

\* l, L: list_deployed_stacks, then a prompt to continue.
MenuList ==
  /\ pc = "menu"
  /\ \E choice \in MainChoices, env \in MainListings :
       /\ dispatch(choice) = "list"
       /\ call' = MainCall(choice, "list", << "list_deployed_stacks" >>, 0, None, 0, env)
       /\ EndTurn(WithLog(list_deployed_stacks(env, {}), << >>, << Ev("press_enter", 0) >>),
                  current_scenario, sink_arn, state_file)

\* The branch for `g` in either case, and the branch for `G` after it:
\* generate_load for the current scenario after a duration in 1..30 and a
\* `y`; show_grafana_info.
\* The duration prompt of the load branch with the range check left without
\* its lower bound.
duration_input_no_lower_bound(text) ==
  LET typed == StrStrip(text)
  IN IF typed = << >> THEN [valid |-> TRUE, duration |-> 5]
     ELSE IF ~IsInt(typed) THEN [valid |-> FALSE, duration |-> 0]
     ELSE [valid |-> ParseInt(typed) <= 30, duration |-> ParseInt(typed)]

\* The duration prompt of the load branch: the stripped answer, when empty,
\* means 5 minutes; otherwise it must be an integer (int()) from 1 to 30.
duration_input(text) ==
  LET typed == StrStrip(text)
  IN IF typed = << >> THEN [valid |-> TRUE, duration |-> 5]
     ELSE IF ~IsInt(typed) THEN [valid |-> FALSE, duration |-> 0]
     ELSE [valid |-> ParseInt(typed) >= 1 /\ ParseInt(typed) <= 30,
           duration |-> ParseInt(typed)]

MenuGenerateLoad ==
  /\ pc = "menu"
  /\ \E choice \in MainChoices :
       LET handler == dispatch(choice)
           l1 == << Ev("ask_duration", 0) >>
           l2 == l1 \o << Ev("ask_load", 0) >>
       IN /\ handler \in {"generate_load", "grafana"}
          /\ IF handler = "grafana" THEN
               \E env \in GrafanaEnvs :
                 /\ call' = MainCall(choice, handler, << "show_grafana_info" >>, 0, None, 0, env)
                 /\ EndTurn(WithLog(show_grafana_info(env, {}), << >>,
                                    << Ev("press_enter", 0) >>),
                            current_scenario, sink_arn, state_file)
             ELSE IF ~Truthy(current_scenario) THEN
               /\ call' = MainCall(choice, handler, << >>, 0, None, 0, << >>)
               /\ EndTurn(Ret(FALSE, << >>, {}), current_scenario, sink_arn, state_file)
             ELSE
               \E text \in DurationTexts :
                 \E d \in {duration_input(text)} :
                 LET n == current_scenario.n
                 IN IF ~d.valid THEN
                      /\ call' = MainCall(choice, handler, << >>, n, None, 0,
                                          [typed |-> text])
                      /\ EndTurn(Ret(FALSE, l1, {}), current_scenario, sink_arn, state_file)
                    ELSE
                      \/ /\ call' = MainCall(choice, handler, << >>, n, None, d.duration,
                                             [typed |-> text])
                         /\ EndTurn(Ret(FALSE, l2, {}), current_scenario, sink_arn, state_file)
                      \/ \E env \in MainLoadEnvs(n) :
                           /\ call' = MainCall(choice, handler, << "generate_load" >>,
                                               n, None, d.duration,
                                               [typed |-> text, load |-> env])
                           /\ EndTurn(WithLog(generate_load(n, d.duration, env, {}), l2, << >>),
                                      current_scenario, sink_arn, state_file)

\* The branch for `D` in either case, and the branch for `d` after it:
\* interactive_destroy_stacks, a fresh listing and save_state;
\* destroy_scenario on the current scenario.
MenuDestroy ==
  /\ pc = "menu"
  /\ \E choice \in MainChoices :
       LET handler == dispatch(choice)
       IN /\ handler \in {"interactive_destroy", "destroy_current"}
          /\ IF handler = "interactive_destroy" THEN
               \E first \in MainListings, batch \in MainBatches, yes \in {"yes", "no"},
                  after \in MainListings, wr \in MainWriteOutcomes(state_file) :
                 \E env \in {InteractiveEnv(first.list_mon, first.list_app, batch.text, yes,
                                            batch.destroys)} :
                 \E r \in {interactive_destroy_stacks(env, {})} :
                 \E listed \in {list_deployed_stacks(after, r.bin)} :
                 LET stacks == listed.ret
                     has_monitoring ==
                       \E i \in DOMAIN stacks : is_monitoring_stack(stacks[i].name)
                     scenario_exists ==
                       \E i \in DOMAIN stacks : stacks[i].name = ScenarioStack(current_scenario.n)
                 IN
                 \E sa2 \in {IF has_monitoring THEN sink_arn ELSE None},
                    cs2 \in {IF Truthy(current_scenario) /\ ~scenario_exists
                             THEN None ELSE current_scenario} :
                    /\ yes = "no" => batch.destroys = DefaultBatchEnv
                    /\ "ask_yes" \notin Asked(r.log) =>
                         yes = "yes" /\ batch.destroys = DefaultBatchEnv
                    /\ call' = MainCall(choice, handler,
                                        << "interactive_destroy_stacks", "list_deployed_stacks" >>,
                                        0, None, 0, [first |-> env, after |-> after])
                    /\ EndTurn(IF r.raised THEN r
                               ELSE WithLog(r, << >>, listed.log \o SaveEv(wr)),
                               cs2, sa2, save_state(state_file, cs2, sa2, wr))
             ELSE IF ~Truthy(current_scenario) THEN
               /\ call' = MainCall(choice, handler, << >>, 0, None, 0, DefaultDestroyEnv)
               /\ EndTurn(Ret(FALSE, << >>, {}), current_scenario, sink_arn, state_file)
             ELSE
               \E files \in {{current_scenario.n}}, wr \in MainWriteOutcomes(state_file) :
                 \E env \in MainDestroyEnvs \cap ScenDestroyEnvs(current_scenario.n, files) :
                   \E r \in {destroy_scenario(current_scenario.n, env, files)} :
                   LET saved == ~r.raised /\ r.ret
                   IN /\ ~saved => wr = "open_fails"
                      /\ call' = MainCall(choice, handler, << "destroy_scenario" >>,
                                          current_scenario.n, None, 0, env)
                      /\ EndTurn(WithLog(r, << >>, IF saved THEN SaveEv(wr) ELSE << >>),
                                 IF saved THEN None ELSE current_scenario, sink_arn,
                                 IF saved THEN save_state(state_file, None, sink_arn, wr)
                                 ELSE state_file)

\* M, m: destroy_monitoring_account; on success the sink ARN is forgotten
\* and the state saved.
MenuDestroyMonitoring ==
  /\ pc = "menu"
  /\ \E choice \in MainChoices, files \in {{}}, wr \in MainWriteOutcomes(state_file) :
       /\ dispatch(choice) = "destroy_monitoring"
       /\ \E env \in MainDestroyEnvs :
            \E r \in {destroy_monitoring_account(env, files)} :
            LET saved == ~r.raised /\ r.ret
            IN /\ ~saved => wr = "open_fails"
               /\ call' = MainCall(choice, "destroy_monitoring",
                                   << "destroy_monitoring_account" >>, 0, None, 0, env)
               /\ EndTurn(WithLog(r, << >>, IF saved THEN SaveEv(wr) ELSE << >>),
                          current_scenario, IF saved THEN None ELSE sink_arn,
                          IF saved THEN save_state(state_file, current_scenario, None, wr)
                          ELSE state_file)

\* Any other input: a warning.
MenuInvalid ==
  /\ pc = "menu"
  /\ \E choice \in MainChoices :
       /\ dispatch(choice) = "invalid"
       /\ call' = MainCall(choice, "invalid", << >>, 0, None, 0, << >>)
       /\ EndTurn(Ret(FALSE, << >>, {}), current_scenario, sink_arn, state_file)

Next ==
  \/ Startup
  \/ ShowMenu
  \/ MenuQuit
  \/ MenuDeployMonitoring
  \/ MenuDeployScenario
  \/ MenuTest
  \/ MenuList
  \/ MenuGenerateLoad
  \/ MenuDestroy
  \/ MenuDestroyMonitoring
  \/ MenuInvalid

Spec == Init /\ [][Next]_vars

\* The turn just taken by main called the function f.
Called(f) ==
  /\ call.fn = "main"
  /\ \E i \in DOMAIN call.calls : call.calls[i] = f

\* A step of main that is the turn of scenario 2 or 6 typed while the
\* session holds no sink ARN, or an empty one.
C1_SinkMissing ==
  /\ pc = "menu"
  /\ ~Truthy(sink_arn)
  /\ call'.fn = "main"
  /\ call'.handler = "deploy_scenario"
  /\ call'.n \in SinkScenarios

\* C1: scenario 2 or 6 selected while sink_arn is null or empty is rejected:
\* no external command is issued, deploy_scenario is not called, and
\* current_scenario, sink_arn and the state file stay as they were; so every
\* call of deploy_scenario for scenario 2 or 6 carries a non-null sink ARN.
C1_SinkRequired ==
  /\ [][C1_SinkMissing =>
          /\ call'.calls = << >>
          /\ Asked(result'.log) \cap Commands = {}
          /\ ~result'.raised
          /\ pc' = "loop"
          /\ UNCHANGED <<current_scenario, sink_arn, state_file>>]_vars
  /\ [](Called("deploy_scenario") /\ call.n \in SinkScenarios =>
          call.sink # None /\ Truthy(call.sink))

\* C1 witness: scenario 6 was typed while the session held the empty sink
\* ARN of a deploy whose SinkArn query printed nothing, and was rejected.
C1_Witness ==
  /\ pc = "loop"
  /\ call.fn = "main"
  /\ call.handler = "deploy_scenario"
  /\ call.n = 6
  /\ call.calls = << >>
  /\ sink_arn = PyStr("")
  /\ result.log = << >>

\* The program has just started on a state file that is missing, unreadable,
\* cut short, or JSON that is no state record.
C5_StartedOnBrokenFile ==
  /\ call.fn = "main"
  /\ call.handler = "startup"
  /\ call.env.config_ok
  /\ call.env.build = 0
  /\ state_file \in BrokenFiles

\* C5: with a missing or corrupt state file (unreadable, not valid JSON, or
\* not a state record) the session state loads as current_scenario = null
\* and sink_arn = null and no exception is raised: the session reaches the
\* menu with no current scenario and no sink.
C5_BrokenFileLoadsDefault ==
  C5_StartedOnBrokenFile =>
    /\ ~result.raised
    /\ pc = "loop"
    /\ current_scenario = None
    /\ sink_arn = None

\* C10: the input `d` runs the destroy-current-scenario action and the input
\* `D` runs the interactive destroy; the two dispatch to different actions.
C10_LowerAndUpperDDiffer ==
  call.fn = "main" =>
    /\ call.choice = "d" =>
         /\ call.handler = "destroy_current"
         /\ ~Called("interactive_destroy_stacks")
    /\ call.choice = "D" => call.handler = "interactive_destroy"

\* C11: the input `G` runs show_grafana_info and starts no load generation,
\* and the input `g` runs load generation for the current scenario; the two
\* dispatch to different actions.
C11_LowerAndUpperGDiffer ==
  call.fn = "main" =>
    /\ call.choice = "G" =>
         /\ call.handler = "grafana"
         /\ Called("show_grafana_info")
         /\ ~Called("generate_load")
    /\ call.choice = "g" => call.handler = "generate_load"

-----------------------------------------------------------------------------
(* Further properties of SpecDestroy.                                       *)

\* A destroy call found the stack, got a `y` and found no entry point in
\* bin/, which can be written.
C12_ConfirmedWithoutArtifact ==
  /\ pc = "done"
  /\ call.fn \in {"destroy_scenario", "destroy_monitoring_account"}
  /\ call.env.describe_stack.rc = 0
  /\ Lower(call.env.ask_destroy) = "y"
  /\ call.n \notin call.files
  /\ call.env.write_bin

\* C12: when the stack exists and the operator confirms with `y`, a missing
\* entry point is written again and the destroy command is then issued, in
\* destroy_scenario and in destroy_monitoring_account alike.
C12_MissingArtifactRegenerated ==
  C12_ConfirmedWithoutArtifact =>
    /\ ~result.raised
    /\ \E i, j \in DOMAIN result.log :
         /\ i < j
         /\ result.log[i] = Ev("write_bin", call.n)
         /\ result.log[j] = Ev("destroy", call.n)

-----------------------------------------------------------------------------
(* Further properties of SpecDeploy.                                        *)

\* A deploy call has ended.
DeployDone ==
  /\ pc = "done"
  /\ call.fn \in {"deploy_monitoring_account", "deploy_scenario"}

\* The account the call expects the profile to resolve to.
DeployAccount ==
  IF call.fn = "deploy_monitoring_account" THEN MonitoringAccountId ELSE ApplicationAccountId

\* The place of a step in the fixed order of a deploy.
StepRank(e) ==
  CASE e = "sts" -> 1
    [] e = "describe_toolkit" -> 2
    [] e = "ask_bootstrap" -> 3
    [] e = "bootstrap" -> 4
    [] e = "write_bin" -> 5
    [] e = "synth" -> 6
    [] e = "ask_deploy" -> 7
    [] e = "deploy" -> 8
    [] e = "describe_outputs" -> 9
    [] OTHER -> 0

\* The account is bootstrapped, or a bootstrap the operator approved succeeded.
DeployBootstrapped ==
  \/ call.env.describe_toolkit = 0
  \/ Lower(call.env.ask_bootstrap) = "y" /\ call.env.bootstrap = 0

\* The first step of the call that fails or is refused, by the answers of the
\* environment; "none" when no step does.
DeployFailedStep ==
  IF call.env.sts.rc # 0 \/ call.env.sts.id.Account # DeployAccount THEN "sts"
  ELSE IF call.env.describe_toolkit # 0 /\ Lower(call.env.ask_bootstrap) # "y"
       THEN "ask_bootstrap"
  ELSE IF call.env.describe_toolkit # 0 /\ call.env.bootstrap # 0 THEN "bootstrap"
  ELSE IF call.env.synth # 0 THEN "synth"
  ELSE IF Lower(call.env.ask_deploy) # "y" THEN "ask_deploy"
  ELSE IF call.env.deploy # 0 THEN "deploy"
  ELSE "none"

\* The result of the call is its failure result.
DeployFailed ==
  IF call.fn = "deploy_monitoring_account" THEN result.ret = None ELSE result.ret = FALSE

-----------------------------------------------------------------------------
(* Further properties of Spec.                                              *)

\* C14: no exception escapes deploy_monitoring_account, whatever the external
\* commands answer and whether or not the entry point can be written: the
\* call returns a sink ARN or null, and the menu loop goes on.
C14_NoExceptionEscapes ==
  Called("deploy_monitoring_account") =>
    /\ ~result.raised
    /\ pc = "loop"
    /\ result.ret = None \/ result.ret.t = "str"

-----------------------------------------------------------------------------
(* Further properties of SpecDeploy: the value deploy_monitoring_account    *)
(* returns.                                                                 *)

\* A call of deploy_monitoring_account has returned.
C15_Returned ==
  /\ DeployDone
  /\ call.fn = "deploy_monitoring_account"
  /\ ~result.raised

\* C15: deploy_monitoring_account returns the SinkArn output when every step
\* succeeded and null otherwise: a non-null return value means that no step
\* failed, that the SinkArn query exited zero and yielded a value, and that
\* the value returned is that one; a query that exits zero and yields no
\* value is a failure.
C15_SinkArnOrNull ==
  C15_Returned =>
    /\ result.ret # None =>
         /\ DeployFailedStep = "none"
         /\ call.env.describe_outputs.rc = 0
         /\ Strip(call.env.describe_outputs.out) # ""
         /\ result.ret = PyStr(Strip(call.env.describe_outputs.out))
    /\ (\/ DeployFailedStep # "none"
        \/ call.env.describe_outputs.rc # 0
        \/ Strip(call.env.describe_outputs.out) = "") => result.ret = None

-----------------------------------------------------------------------------
(* Further properties of Spec: no command is issued again by the program.   *)

\* The commands that change a deployment.
C16_Steps == {"bootstrap", "synth", "deploy", "destroy"}

\* The turn just taken was a deploy or destroy menu action that called its
\* function, and the function returned.
C16_ActionDone ==
  /\ call.fn = "main"
  /\ \/ Called("deploy_monitoring_account")
     \/ Called("deploy_scenario")
     \/ Called("destroy_scenario")
     \/ Called("destroy_monitoring_account")
     \/ Called("interactive_destroy_stacks")
  /\ ~result.raised

\* How often the command e was issued for the stack n.
C16_Issued(e, n) ==
  Cardinality({i \in DOMAIN result.log : result.log[i] = Ev(e, n)})

\* A command of the turn exited non-zero.
C16_StepFailed ==
  IF Called("interactive_destroy_stacks")
  THEN /\ "destroy" \in Asked(result.log)
       /\ \E k \in DOMAIN result.selected : call.env.first.destroys[k].destroy # 0
  ELSE \E e \in C16_Steps : e \in Asked(result.log) /\ call.env[e] # 0

\* The function the turn called returned its failure value.
C16_FailureResult ==
  IF Called("deploy_monitoring_account") THEN result.ret = None ELSE result.ret = FALSE

-----------------------------------------------------------------------------
(* Further properties of Spec: the state file after a state-changing turn.  *)
(* A turn of main is the step from the prompt (pc = "menu") to the head of  *)
(* the loop, where the next menu is shown.                                  *)

\* The turn with the log r called save_state, and the write succeeded.
C17_Saved(r) == \E i \in DOMAIN r.log : r.log[i].e = "save_state"

C17_Written(r) == \E i \in DOMAIN r.log : r.log[i].e = "save_state" /\ r.log[i].wr = "ok"

\* The state file `file` holds the value v under the key k.
C17_Holds(file, k, v) ==
  /\ load_state(file).kind = "dict"
  /\ dict_get(load_state(file).d, k) = v

\* The batch of the turn c, r destroyed the stack numbered n (0 for the
\* monitoring account): one of its selected entries names the stack and the
\* destroy command issued for it exited zero.
C17_BatchDestroyed(c, r, n) ==
  /\ Ev("destroy", n) \in {r.log[i] : i \in DOMAIN r.log}
  /\ \E k \in DOMAIN r.selected :
       /\ IF n = 0 THEN is_monitoring_stack(r.selected[k].name)
          ELSE r.selected[k].name = ScenarioStack(n)
       /\ c.env.first.destroys[k].destroy = 0

\* The listing main asks for after the batch of the turn c names no stack
\* numbered n.
C17_GoneFromListing(c, n) ==
  LET stacks == list_deployed_stacks(c.env.after, {}).ret
  IN \A i \in DOMAIN stacks :
       IF n = 0 THEN ~is_monitoring_stack(stacks[i].name)
       ELSE stacks[i].name # ScenarioStack(n)

\* The turn c, r called the function f.
C17_Called(c, r, f) ==
  /\ c.fn = "main"
  /\ ~r.raised
  /\ \E i \in DOMAIN c.calls : c.calls[i] = f

\* C17: the state file is rewritten after every state-changing action.  At
\* the next menu prompt after a successful deploy of scenario n, save_state
\* has been called and, its write succeeding, the file holds
\* current_scenario = n; after a successful deploy of the monitoring
\* account it holds the sink ARN returned; after a successful destroy of the
\* current scenario it holds current_scenario = null; after a successful
\* destroy of the monitoring account it holds sink_arn = null.
C17_StateFileRewritten ==
  [][ (pc = "menu" /\ pc' = "loop") =>
        /\ (C17_Called(call', result', "deploy_scenario") /\ result'.ret = TRUE) =>
             /\ C17_Saved(result')
             /\ C17_Written(result') =>
                  C17_Holds(state_file', "current_scenario", PyInt(call'.n))
        /\ (C17_Called(call', result', "deploy_monitoring_account") /\ Truthy(result'.ret)) =>
             /\ C17_Saved(result')
             /\ C17_Written(result') => C17_Holds(state_file', "sink_arn", result'.ret)
        /\ (C17_Called(call', result', "destroy_scenario") /\ result'.ret = TRUE) =>
             /\ C17_Saved(result')
             /\ C17_Written(result') => C17_Holds(state_file', "current_scenario", None)
        /\ (C17_Called(call', result', "destroy_monitoring_account") /\ result'.ret = TRUE) =>
             /\ C17_Saved(result')
             /\ C17_Written(result') => C17_Holds(state_file', "sink_arn", None)
        /\ (/\ C17_Called(call', result', "interactive_destroy_stacks")
            /\ Truthy(current_scenario)
            /\ C17_BatchDestroyed(call', result', current_scenario.n)
            /\ C17_GoneFromListing(call', current_scenario.n)) =>
             /\ C17_Saved(result')
             /\ C17_Written(result') => C17_Holds(state_file', "current_scenario", None)
        /\ (/\ C17_Called(call', result', "interactive_destroy_stacks")
            /\ C17_BatchDestroyed(call', result', 0)
            /\ C17_GoneFromListing(call', 0)) =>
             /\ C17_Saved(result')
             /\ C17_Written(result') => C17_Holds(state_file', "sink_arn", None)
     ]_vars

\* The next prompt after scenario 2 was deployed: the state was saved and
\* the file holds current_scenario = 2 and the sink ARN of the session.
C17_Witness ==
  /\ pc = "loop"
  /\ C17_Called(call, result, "deploy_scenario")
  /\ call.n = 2
  /\ result.ret = TRUE
  /\ C17_Written(result)
  /\ C17_Holds(state_file, "current_scenario", PyInt(2))
  /\ C17_Holds(state_file, "sink_arn", sink_arn)
  /\ Truthy(sink_arn)

-----------------------------------------------------------------------------
(* Further properties of SpecDestroy: the tally of a batch.                 *)

\* An interactive_destroy_stacks call whose batch was confirmed and ran to
\* its end.
C18_BatchFinished ==
  /\ pc = "done"
  /\ call.fn = "interactive_destroy_stacks"
  /\ "ask_yes" \in Asked(result.log)
  /\ Lower(call.env.ask_yes) = "yes"
  /\ ~result.raised

\* The existence checks in a log: each destroy function starts with one.
C18_IsDescribe(x) == x.e = "describe_stack"

\* The selected stacks the loop knows how to destroy.
C18_HasKind(stack) == is_monitoring_stack(stack.name) \/ scenario_of(stack.name) # 0

\* C18: in a confirmed batch the selected stacks are processed one at a time
\* in selection order and each is counted exactly once: at the end
\* success_count + failed_count is the number of selected stacks, and the
\* call returns True exactly when success_count > 0.
C18_BatchTally ==
  C18_BatchFinished =>
    LET described == SelectSeq(result.log, C18_IsDescribe)
        known == SelectSeq(result.selected, C18_HasKind)
    IN /\ result.success_count + result.failed_count = Len(result.selected)
       /\ result.ret <=> result.success_count > 0
       /\ Len(described) = Len(known)
       /\ \A i \in DOMAIN known : described[i].n = scenario_of(known[i].name)

\* A batch of two different stacks, the second listed one first: one was
\* destroyed, the other was not, and the call returned True.
C18_Witness ==
  /\ C18_BatchFinished
  /\ call.env.ask_selection = << "2", ",", "1" >>
  /\ Len(result.selected) = 2
  /\ result.selected[1] # result.selected[2]
  /\ result.success_count = 1
  /\ result.failed_count = 1
  /\ result.ret = TRUE

-----------------------------------------------------------------------------
(* Further properties of SpecDestroy: the entry point after a destroy.      *)

\* A call of destroy_scenario or destroy_monitoring_account has returned.
C19_Returned ==
  /\ pc = "done"
  /\ call.fn \in {"destroy_scenario", "destroy_monitoring_account"}
  /\ ~result.raised

\* C19: after destroy_scenario(n) or destroy_monitoring_account returns
\* success, the entry point of the stack does not exist; after a call that
\* did not succeed, because the destroy command failed, the operator
\* declined or the existence check failed, an entry point that existed
\* before the call still exists.
C19_EntryPointAfterDestroy ==
  C19_Returned =>
    /\ result.ret => call.n \notin bin
    /\ (~result.ret /\ call.n \in call.files) => call.n \in bin

\* A destroy command that failed with the entry point in place: the file is
\* still there.
C19_Witness ==
  /\ C19_Returned
  /\ call.fn = "destroy_scenario"
  /\ call.n \in call.files
  /\ result.log[Len(result.log)] = Ev("destroy", call.n)
  /\ call.env.destroy # 0
  /\ ~result.ret
  /\ call.n \in bin

-----------------------------------------------------------------------------
(* Further properties of SpecLoad: the rounds of scenario 3.                *)

\* generate_load for scenario 3 returned after an outputs query that
\* yielded a list of outputs.
C20_Scenario3Loaded ==
  /\ pc = "done"
  /\ call.fn = "generate_load"
  /\ call.n = 3
  /\ call.env.describe_outputs.rc = 0
  /\ call.env.describe_outputs.kind = "list"

\* The resources of scenario 3 in the order of a round: ALB endpoint, API
\* function, worker function, table.
C20_RoundOrder == << "ALBDNSName", "APIFunctionName", "WorkerFunctionName", "TableName" >>

\* The resources of scenario 3 present in the outputs of the call.
C20_Present == call.env.describe_outputs.keys \cap TaskKeys(3)

\* C20: load generation for scenario 3 makes exactly duration*10 rounds over
\* the resources present in the outputs, in round-robin order: the load
\* commands are the end of the log, the p-th of them (from 0) calls the
\* ((p mod m) + 1)-th of the m present resources in round p div m, so every
\* present resource is called duration*10 times and an absent one never;
\* with no resource present the routine returns False without any call.
C20_Scenario3RoundRobin ==
  C20_Scenario3Loaded =>
    LET order == SelectSeq(C20_RoundOrder, LAMBDA k : k \in C20_Present)
        m == Len(order)
        loads == LoadEntries(result.log)
        off == Len(result.log) - Cardinality(loads)
    IN /\ ~result.raised
       /\ IF C20_Present = {}
          THEN result.ret = FALSE /\ loads = {}
          ELSE /\ result.ret = TRUE
               /\ Cardinality(loads) = call.duration * 10 * m
               /\ \A j \in loads :
                    /\ j > off
                    /\ result.log[j].key = order[((j - off - 1) % m) + 1]
                    /\ result.log[j].n = (j - off - 1) \div m
               /\ \A k \in C20_Present :
                    Cardinality({j \in loads : result.log[j].key = k}) = call.duration * 10
               /\ \A j \in loads : result.log[j].key \in C20_Present

\* Five minutes of load with only the ALB and the table present: fifty
\* rounds of two calls.
C20_Witness ==
  /\ C20_Scenario3Loaded
  /\ C20_Present = {"ALBDNSName", "TableName"}
  /\ call.duration = 5
  /\ result.ret = TRUE
  /\ Cardinality(LoadEntries(result.log)) = 100
  /\ Count(result.log, "curl") = 50
  /\ Count(result.log, "put_item") = 50

-----------------------------------------------------------------------------
(* Further properties of SpecLoad: outputs without the field looked for.    *)

\* generate_load has ended, by a return or by an exception.
C21_Ended ==
  /\ pc = "done"
  /\ call.fn = "generate_load"

\* The outputs query failed, or its outputs hold none of the fields the
\* routine of the scenario looks for.
C21_NothingFound ==
  \/ call.env.describe_outputs.rc # 0
  \/ call.env.describe_outputs.keys \cap TaskKeys(call.n) = {}

\* C21: when the outputs query fails, or the outputs lack the field the
\* routine of the scenario requires (every candidate field for scenarios 3
\* and 5), generate_load returns False and issues no load command.
C21_MissingFieldIsNotFound ==
  (C21_Ended /\ C21_NothingFound) =>
    /\ ~result.raised
    /\ result.ret = FALSE
    /\ LoadEntries(result.log) = {}

-----------------------------------------------------------------------------
(* Further properties of Spec: the values the session holds.                *)

\* v is null or an integer in 1..6.
C22_Scenario(v) == v = None \/ (v.t = "int" /\ v.n \in 1..6)

-----------------------------------------------------------------------------
(* Further properties of Spec: a state file that cannot be written.         *)

\* The turn with the result r called save_state and its write failed: the
\* file could not be opened, or the write broke off.
C23_WriteFailed(r) ==
  \E i \in DOMAIN r.log : r.log[i].e = "save_state" /\ r.log[i].wr # "ok"

\* C23: a failure to write the state file does not abort the menu action
\* that saves: no exception is raised, the turn ends at the head of the
\* loop, and current_scenario and sink_arn hold their new values: the
\* scenario deployed, the sink ARN returned, null after the destroy of the
\* monitoring account, and after a batch destroy what the fresh listing
\* leaves of them.
C23_FailedWriteDoesNotAbort ==
  [][ (pc = "menu" /\ call'.fn = "main" /\ C23_WriteFailed(result')) =>
        /\ ~result'.raised
        /\ pc' = "loop"
        /\ C17_Called(call', result', "deploy_scenario") =>
             current_scenario' = PyInt(call'.n) /\ sink_arn' = sink_arn
        /\ C17_Called(call', result', "deploy_monitoring_account") =>
             current_scenario' = current_scenario /\ sink_arn' = result'.ret
        /\ C17_Called(call', result', "destroy_monitoring_account") =>
             current_scenario' = current_scenario /\ sink_arn' = None
        /\ C17_Called(call', result', "interactive_destroy_stacks") =>
             /\ sink_arn' = IF C17_GoneFromListing(call', 0) THEN None ELSE sink_arn
             /\ current_scenario' =
                  IF Truthy(current_scenario) /\ C17_GoneFromListing(call', current_scenario.n)
                  THEN None ELSE current_scenario
     ]_vars

\* The prompt after scenario 1 was deployed in a session that held none,
\* with a state file that could not be written: the session holds 1 and the
\* file does not.
C23_Witness ==
  /\ pc = "loop"
  /\ Called("deploy_scenario")
  /\ C23_WriteFailed(result)
  /\ current_scenario = PyInt(1)
  /\ ~C17_Holds(state_file, "current_scenario", PyInt(1))

-----------------------------------------------------------------------------
(* Further properties of Spec: the sink ARN after a failed deploy.          *)

\* The turn c, r was option 0 or A and deployed nothing: the operator
\* declined, or deploy_monitoring_account returned null.
C24_DeployFailed(c, r) ==
  /\ c.fn = "main"
  /\ c.handler \in {"deploy_monitoring", "deploy_adot"}
  /\ ~r.raised
  /\ c.calls = << >> \/ r.ret = None

\* C24: a monitoring-account deploy action that fails or is cancelled at any
\* step leaves the sink_arn of the session unchanged: a sink ARN held before
\* the action is held at the next prompt.
C24_FailedDeployKeepsSink ==
  [][ (pc = "menu" /\ C24_DeployFailed(call', result')) => sink_arn' = sink_arn ]_vars

-----------------------------------------------------------------------------
(* Further properties of Spec: the session and its state file.              *)

\* The session holds what the state file holds; a file that is missing or
\* does not load counts as (null, null).
C25_InStep ==
  /\ current_scenario = dict_get(load_state(state_file).d, "current_scenario")
  /\ sink_arn = dict_get(load_state(state_file).d, "sink_arn")

\* C25: whenever the menu prompt is shown, the current_scenario and sink_arn
\* of the session equal those of the state file, as long as the writes of the
\* state file succeed: they are equal when the loop is entered, and a turn
\* that starts with them equal and whose write, if any, succeeds ends with
\* them equal.
C25_MemoryMatchesFile ==
  /\ [](pc \in {"loop", "menu"} /\ call.fn = "main" /\ call.handler = "startup" => C25_InStep)
  /\ [][ (/\ pc = "menu"
          /\ pc' = "loop"
          /\ C25_InStep
          /\ ~C23_WriteFailed(result')) => C25_InStep' ]_vars

\* ------------------------------------------------------------------------
\* C26
\* ------------------------------------------------------------------------

\* The turn just taken was a batch destroy (D) that went on to list the
\* stacks again.
C26_Relisted(c) ==
  /\ c.fn = "main"
  /\ c.handler = "interactive_destroy"
  /\ c.calls = << "interactive_destroy_stacks", "list_deployed_stacks" >>

\* C26: after D, sink_arn and current_scenario are cleared only when the
\* stack they stand for is actually absent; in particular a list-stacks query
\* that failed (non-zero exit) clears neither value: the monitoring stack
\* lives in the monitoring account and the scenario stacks in the application
\* account, so a failed query of an account says nothing about its stack.
C26_FailedListingClearsNothing ==
  [][ (/\ pc = "menu"
       /\ pc' = "loop"
       /\ C26_Relisted(call'))
      => /\ call'.env.after.list_mon.rc # 0 => sink_arn' = sink_arn
         /\ call'.env.after.list_app.rc # 0 => current_scenario' = current_scenario ]_vars
\* ------------------------------------------------------------------------
\* C27
\* ------------------------------------------------------------------------

\* A batch destruction got as far as its list of stacks to destroy: the
\* selection was accepted and the confirmation prompt was shown.
C27_ListBuilt ==
  /\ pc = "done"
  /\ call.fn = "interactive_destroy_stacks"
  /\ ~result.raised
  /\ "ask_yes" \in Asked(result.log)

\* The number of destroy calls a log holds for one stack: each destroy
\* function opens with one existence check of its stack.
C27_Attempts(log, stack) ==
  Cardinality({i \in DOMAIN log : /\ log[i].e = "describe_stack"
                                  /\ log[i].n = scenario_of(stack.name)})

\* C27: for every selection input, a repeated index included, the list of
\* stacks to destroy holds no stack twice and destroy is attempted at most
\* once per stack.
C27_EachStackAtMostOnce ==
  C27_ListBuilt =>
    /\ \A i, j \in DOMAIN result.selected :
         i # j => result.selected[i] # result.selected[j]
    /\ \A i \in DOMAIN result.selected :
         C27_Attempts(result.log, result.selected[i]) <= 1

\* ------------------------------------------------------------------------
\* C28
\* ------------------------------------------------------------------------

\* A turn of the load branch (g with a scenario deployed) has ended: the
\* operator was asked for a duration.
C28_DurationAsked ==
  /\ pc # "menu"
  /\ call.fn = "main"
  /\ call.handler = "generate_load"
  /\ "ask_duration" \in Asked(result.log)

\* The answer to the duration prompt is neither empty nor an integer from 1
\* to 30.
C28_Rejected(text) ==
  /\ StrStrip(text) # << >>
  /\ \/ ~IsInt(StrStrip(text))
     \/ ParseInt(StrStrip(text)) < 1
     \/ ParseInt(StrStrip(text)) > 30

C29_Offered ==
  {"q", "0", "a", "1", "2", "3", "4", "5", "6", "t", "l", "g", "d", "m"}

\* A turn that cannot act: the input is none of the offered ones, or it is
\* t or g while no scenario is deployed (cs is the value before the turn).
C29_CannotAct(c, cs) ==
  /\ c.fn = "main"
  /\ c.handler # "startup"
  /\ \/ Lower(c.choice) \notin C29_Offered
     \/ Lower(c.choice) \in {"t", "g"} /\ cs = None

\* C29: a menu turn that cannot act (an unrecognized input, or t or g while
\* current_scenario is null) issues no external command and leaves
\* current_scenario, sink_arn and the state file as they were; the loop goes
\* on.
C29_IdleTurnChangesNothing ==
  [][ (/\ pc = "menu"
       /\ pc' # "menu"
       /\ C29_CannotAct(call', current_scenario))
      => /\ pc' = "loop"
         /\ call'.calls = << >>
         /\ Asked(result'.log) \cap Commands = {}
         /\ current_scenario' = current_scenario
         /\ sink_arn' = sink_arn
         /\ state_file' = state_file ]_vars

\* The operator typed t with a monitoring sink stored and no scenario
\* deployed: the turn ended back in the loop.
C29_Witness ==
  /\ pc = "loop"
  /\ call.fn = "main"
  /\ call.choice = "t"
  /\ call.handler = "test"
  /\ current_scenario = None
  /\ sink_arn # None
  /\ result.log = << >>

====
